---- MODULE Spec2Model ----
(***************************************************************************)
(* open-haven: the location page (LocationDetail), its review form         *)
(* (ReviewForm and the DetailedReviewForm drafts), the review cards, the    *)
(* favorite toggles and the hosted store they call (reviews, favorites,    *)
(* review_helpfulness with their UNIQUE / CHECK constraints and RLS).       *)
(*                                                                         *)
(* Every remote call is a message in `net`: issued as a request, applied   *)
(* atomically by the store (which may also fail it), and delivered back    *)
(* as a response that runs the rest of the handler.  Any request or        *)
(* response in `net` may be taken next, so calls overlap freely.           *)
(***************************************************************************)
EXTENDS Integers, Sequences, FiniteSets, TLC

VARIABLES
    variant,        \* which review-form source file is built into the page
    sReviews,       \* table public.reviews
    sFavorites,     \* table public.favorites
    sVotes,         \* table public.review_helpfulness
    nextId,         \* next primary key the store hands out (gen_random_uuid)
    net,            \* remote calls in flight (requests and responses)
    user,           \* LocationDetail: user
    favorite,       \* LocationDetail: favorite
    userReview,     \* LocationDetail: userReview
    reviews,        \* LocationDetail: reviews
    helpfulness,    \* LocationDetail: helpfulness
    averageRating,  \* LocationDetail: averageRating (tenths)
    reviewCount,    \* LocationDetail: reviewCount
    form,           \* state of the mounted ReviewForm instance
    voting,         \* ReviewCard: ids of the mounted cards with voting = true
    deleting,       \* ReviewCard: ids of the mounted cards with deleting = true
    detailed,       \* state of the DetailedReviewForm instance
    session,        \* supabase.auth: the signed-in account of the client
    route,          \* the page the router shows: "location", "programs", "auth"
    notes,          \* LocationDetail: notes
    visited,        \* LocationDetail: visited
    pUser,          \* Programs: user
    pFavorites,     \* Programs: favorites
    cardUser,       \* ProgramCard of the location: user
    isTogglingFavorite, \* ProgramCard of the location: isTogglingFavorite
    hist,           \* history: the favorite toggles started and completed
    sLocations,     \* table public.locations, each row with its organization
    sProfiles,      \* table public.profiles (the ids)
    sUsers,         \* table auth.users (the ids)
    location,       \* LocationDetail: location
    loading,        \* LocationDetail: loading
    savingNotes,    \* LocationDetail: savingNotes
    locations,      \* Programs: locations
    searchQuery,    \* Programs: searchQuery
    countyFilter,   \* Programs: countyFilter
    pRatings,       \* Programs: ratings
    pLoading,       \* Programs: loading
    event           \* the handler step taken last and the notice it raised

storeVars == <<sReviews, sFavorites, sVotes, nextId>>
pageVars  == <<user, favorite, userReview, reviews, helpfulness, averageRating, reviewCount>>
cardVars  == <<voting, deleting>>
progVars  == <<pUser, pFavorites, cardUser, isTogglingFavorite>>
dirVars   == <<sLocations, sProfiles, sUsers, location, loading, savingNotes, locations,
               searchQuery, countyFilter, pRatings, pLoading>>
sideVars  == <<route, notes, visited, pUser, pFavorites, cardUser, isTogglingFavorite, hist,
               dirVars>>
vars == <<variant, sReviews, sFavorites, sVotes, nextId, net, user, favorite,
          userReview, reviews, helpfulness, averageRating, reviewCount, form,
          voting, deleting, detailed, session, route, notes, visited, pUser,
          pFavorites, cardUser, isTogglingFavorite, hist, sLocations, sProfiles,
          sUsers, location, loading, savingNotes, locations, searchQuery,
          countyFilter, pRatings, pLoading, event>>

---------------------------------------------------------------------------
\* Bounds of the model.
MaxInFlight == 2
MaxIds == 1
MaxToggles == 3

\* Program constants.
MaxLength == 2000
TitleMaxLength == 100
MinRating == 1
MaxRating == 5

---------------------------------------------------------------------------
\* Nullable values: null is the empty tuple, a value v is <<v>>.
Null == <<>>
Some(v) == <<v>>

\* Strings, run-length encoded: a sequence of <<character, repetitions>>.
Blank == <<>>
Spaces == << <<" ", 2>> >>
Padded == << <<" ", 1>>, <<"a", 3>>, <<" ", 1>> >>
Word == << <<"a", 3>> >>
OverLimit == << <<"c", MaxLength + 1>> >>

\* String.prototype.length
RECURSIVE Length(_)
Length(s) == IF s = <<>> THEN 0 ELSE Head(s)[2] + Length(Tail(s))

IsSpace(ch) == ch = " "

RECURSIVE TrimStart(_)
TrimStart(s) ==
    IF s = <<>> THEN <<>>
    ELSE IF IsSpace(Head(s)[1]) THEN TrimStart(Tail(s)) ELSE s

RECURSIVE TrimEnd(_)
TrimEnd(s) ==
    IF s = <<>> THEN <<>>
    ELSE IF IsSpace(s[Len(s)][1])
         THEN TrimEnd(SubSeq(s, 1, Len(s) - 1))
         ELSE s

\* String.prototype.trim
Trim(s) == TrimEnd(TrimStart(s))

\* JavaScript truthiness of a string: "" is falsy.
Truthy(s) == Length(s) > 0

---------------------------------------------------------------------------
\* The world of the model: one location page, two caregivers.
LocId == "L1"
OrgId == "O1"
Viewer == "u1"
OtherUser == "u2"

ProgramKeys == {"dignity", "activities", "safety"}
\* ReviewForm: useState<ProgramRatings>({ dignity: 0, activities: 0, safety: 0 })
InitialProgramRatings == [k \in ProgramKeys |-> 0]
\* reviews.program_ratings JSONB DEFAULT '{}'
EmptyJson == [k \in {} |-> 0]

---------------------------------------------------------------------------
\* The store: tables as sets of rows, with the constraints of the migrations.

\* Mutant: the table without its UNIQUE(user_id, location_id) constraint.
ReviewsNotUnique(tbl, row) == TRUE

\* reviews: UNIQUE(user_id, location_id)
ReviewsUnique(tbl, row) ==
    ~\E r \in tbl : r.user_id = row.user_id /\ r.location_id = row.location_id

\* reviews: rating INTEGER NOT NULL CHECK (rating >= 1 AND rating <= 5)
RatingCheck(rating) == rating >= MinRating /\ rating <= MaxRating

\* RLS: "... TO authenticated WITH CHECK / USING (auth.uid() = user_id)"
OwnedBy(uid, owner) == uid # Null /\ uid[1] = owner

\* INSERT INTO reviews: the row gets a fresh id; a violated constraint or
\* policy rejects the statement and leaves the table as it was.
ReviewsInsert(tbl, uid, row, id) ==
    IF ~OwnedBy(uid, row.user_id) THEN [error |-> TRUE, code |-> "rls", table |-> tbl]
    ELSE IF ~RatingCheck(row.rating) THEN [error |-> TRUE, code |-> "check", table |-> tbl]
    ELSE IF ~ReviewsUnique(tbl, row) THEN [error |-> TRUE, code |-> "unique", table |-> tbl]
    ELSE [error |-> FALSE, code |-> "", table |-> tbl \cup {[row EXCEPT !.id = id]}]

\* UPDATE reviews SET ... WHERE id = ...: only the rows the policy lets the
\* caller see are touched; matching no row is not an error.
ReviewsUpdate(tbl, uid, id, patch) ==
    LET hit == {r \in tbl : r.id = id /\ OwnedBy(uid, r.user_id)}
        new(r) == [r EXCEPT !.rating = patch.rating, !.title = patch.title,
                            !.review_text = patch.review_text,
                            !.program_ratings =
                                IF patch.has_program_ratings
                                THEN patch.program_ratings ELSE @]
    IN  IF hit # {} /\ ~RatingCheck(patch.rating)
        THEN [error |-> TRUE, code |-> "check", table |-> tbl]
        ELSE [error |-> FALSE, code |-> "", table |-> (tbl \ hit) \cup {new(r) : r \in hit}]

\* DELETE FROM reviews WHERE id = ...
ReviewsDelete(tbl, uid, id) ==
    {r \in tbl : ~(r.id = id /\ OwnedBy(uid, r.user_id))}

\* review_helpfulness.review_id REFERENCES reviews(id) ON DELETE CASCADE
VotesCascade(votes, tbl) == {v \in votes : \E r \in tbl : r.id = v.review_id}

\* favorites: UNIQUE(user_id, location_id)
FavoritesUnique(tbl, row) ==
    ~\E r \in tbl : r.user_id = row.user_id /\ r.location_id = row.location_id

\* INSERT INTO favorites (user_id, location_id): notes NULL, visited DEFAULT
\* false, visit_date NULL; policy WITH CHECK (auth.uid() = user_id).
FavoritesInsert(tbl, uid, row, id) ==
    LET new == [id |-> id, user_id |-> row.user_id, location_id |-> row.location_id,
                notes |-> Null, visited |-> FALSE, visit_date |-> Null]
    IN  IF ~OwnedBy(uid, row.user_id)
        THEN [error |-> TRUE, code |-> "rls", table |-> tbl, data |-> {}]
        ELSE IF ~FavoritesUnique(tbl, row)
        THEN [error |-> TRUE, code |-> "unique", table |-> tbl, data |-> {}]
        ELSE [error |-> FALSE, code |-> "", table |-> tbl \cup {new}, data |-> {new}]

\* Mutant: a DELETE that removes nothing and reports no error.
FavoritesDeleteNothing(tbl, uid, arg) == tbl

\* DELETE FROM favorites WHERE id = ... (location page) or WHERE user_id = ...
\* AND location_id = ... (ProgramCard); policy USING (auth.uid() = user_id).
\* Matching no row is not an error.
FavoritesDelete(tbl, uid, arg) ==
    {r \in tbl :
        ~(/\ OwnedBy(uid, r.user_id)
          /\ IF "id" \in DOMAIN arg
             THEN r.id = arg.id
             ELSE r.user_id = arg.user_id /\ r.location_id = arg.location_id)}

\* UPDATE favorites SET ... WHERE id = ...; policy USING (auth.uid() = user_id).
\* Matching no row is not an error.
FavoritesUpdate(tbl, uid, id, patch) ==
    {IF r.id = id /\ OwnedBy(uid, r.user_id)
     THEN [r EXCEPT !.notes = patch.notes, !.visited = patch.visited,
                    !.visit_date = patch.visit_date]
     ELSE r : r \in tbl}

\* The columns fetchFavorite selects.
FavoriteData(r) == [id |-> r.id, notes |-> r.notes, visited |-> r.visited,
                    visit_date |-> r.visit_date]

\* Mutant: the table without its UNIQUE(review_id, user_id) constraint.
VotesNotUnique(tbl, row) == TRUE

\* review_helpfulness: UNIQUE(review_id, user_id)
VotesUnique(tbl, row) ==
    ~\E v \in tbl : v.review_id = row.review_id /\ v.user_id = row.user_id

\* review_helpfulness.id DEFAULT gen_random_uuid(): nothing refers to the id
\* of a vote, so the smallest id the table does not use stands for a fresh one.
FreshVoteId(tbl) ==
    CHOOSE n \in 1..(Cardinality(tbl) + 1) :
        /\ ~\E v \in tbl : v.id = n
        /\ \A k \in 1..(n - 1) : \E v \in tbl : v.id = k

\* Mutant: an insert policy that also refuses a vote on the caller's own review.
VotesInsertNoSelf(tbl, reviewsTbl, uid, row) ==
    IF ~OwnedBy(uid, row.user_id) THEN [error |-> TRUE, code |-> "rls", table |-> tbl]
    ELSE IF \E r \in reviewsTbl : r.id = row.review_id /\ r.user_id = row.user_id
    THEN [error |-> TRUE, code |-> "rls", table |-> tbl]
    ELSE IF ~\E r \in reviewsTbl : r.id = row.review_id
    THEN [error |-> TRUE, code |-> "fkey", table |-> tbl]
    ELSE IF ~VotesUnique(tbl, row) THEN [error |-> TRUE, code |-> "unique", table |-> tbl]
    ELSE [error |-> FALSE, code |-> "",
          table |-> tbl \cup {[id |-> FreshVoteId(tbl), review_id |-> row.review_id,
                                user_id |-> row.user_id]}]

\* INSERT INTO review_helpfulness: review_id REFERENCES reviews(id); policy
\* WITH CHECK (auth.uid() = user_id).
VotesInsert(tbl, reviewsTbl, uid, row) ==
    IF ~OwnedBy(uid, row.user_id) THEN [error |-> TRUE, code |-> "rls", table |-> tbl]
    ELSE IF ~\E r \in reviewsTbl : r.id = row.review_id
    THEN [error |-> TRUE, code |-> "fkey", table |-> tbl]
    ELSE IF ~VotesUnique(tbl, row) THEN [error |-> TRUE, code |-> "unique", table |-> tbl]
    ELSE [error |-> FALSE, code |-> "",
          table |-> tbl \cup {[id |-> FreshVoteId(tbl), review_id |-> row.review_id,
                                user_id |-> row.user_id]}]

\* Mutant: a DELETE that removes nothing and reports no error.
VotesDeleteNothing(tbl, uid, arg) == tbl

\* DELETE FROM review_helpfulness WHERE review_id = ... AND user_id = ...
VotesDelete(tbl, uid, arg) ==
    {v \in tbl : ~(/\ OwnedBy(uid, v.user_id)
                   /\ v.review_id = arg.review_id /\ v.user_id = arg.user_id)}

\* The columns fetchReviews selects.
ReviewData(r) == [id |-> r.id, rating |-> r.rating, title |-> r.title,
                  review_text |-> r.review_text, user_id |-> r.user_id]

\* The columns fetchUserReview selects (the existingReview prop of the form).
UserReviewData(r) == [id |-> r.id, rating |-> r.rating, title |-> r.title,
                      review_text |-> r.review_text]

\* fetchUserReview: .eq("user_id", ...).eq("location_id", ...).maybeSingle()
MaybeSingle(rows) ==
    IF Cardinality(rows) <= 1
    THEN [error |-> FALSE, code |-> "", data |-> rows]
    ELSE [error |-> TRUE, code |-> "multiple", data |-> {}]

\* fetchLocation: .eq("id", id).single(): anything but exactly one row is an
\* error of the response.
Single(rows) ==
    IF Cardinality(rows) = 1
    THEN [error |-> FALSE, code |-> "", data |-> rows]
    ELSE [error |-> TRUE, code |-> "norows", data |-> {}]

\* The data of a maybeSingle() response: the row, or null when there is none.
RowOrNull(rows) == IF rows = {} THEN Null ELSE Some(CHOOSE r \in rows : TRUE)

---------------------------------------------------------------------------
\* Remote calls.  src names the component instance whose handler issued the
\* call; live says whether that instance is still mounted (a state setter
\* of an unmounted instance does nothing).  A response carries { error, data };
\* code says what raised the error: a constraint or policy of the store
\* ("unique", "check", "rls") or the transport ("network").
Call(kind, src, arg, ctx) ==
    [kind |-> kind, stage |-> "req", uid |-> session, src |-> src, arg |-> arg,
     ctx |-> ctx, error |-> FALSE, code |-> "", data |-> {}, live |-> TRUE]

Remove(s, i) == SubSeq(s, 1, i - 1) \o SubSeq(s, i + 1, Len(s))

\* The calls in flight are unordered (any of them may be taken next); the
\* sequence is kept sorted by kind and stage so that one multiset of calls
\* has one representation.
KindOrder == <<"auth.getSession", "locations.list", "ratings.list", "location.select", "reviews.select", "profiles.select", "helpfulness.select",
               "userReview.select", "reviews.insert", "reviews.update",
               "reviews.delete", "favorites.select", "favorites.list",
               "favorites.insert", "favorites.delete", "favorites.update",
               "votes.insert", "votes.delete">>
Rank(m) == 2 * (CHOOSE k \in DOMAIN KindOrder : KindOrder[k] = m.kind)
           + (IF m.stage = "req" THEN 0 ELSE 1)

Put(msgs, m) ==
    LET before == Cardinality({j \in DOMAIN msgs : Rank(msgs[j]) <= Rank(m)})
    IN  SubSeq(msgs, 1, before) \o <<m>> \o SubSeq(msgs, before + 1, Len(msgs))

RECURSIVE PutAll(_, _)
PutAll(msgs, new) ==
    IF new = <<>> THEN msgs ELSE PutAll(Put(msgs, Head(new)), Tail(new))

Page == <<"page", 0>>
Form == <<"form", 0>>
Card(id) == <<"card", id>>
Programs == <<"programs", 0>>
ProgramCard == <<"programCard", 0>>

WriteKinds == {"reviews.insert", "reviews.update", "reviews.delete"}
SubmitKinds == {"reviews.insert", "reviews.update"}
FavoriteKinds == {"favorites.insert", "favorites.delete"}
VoteKinds == {"votes.insert", "votes.delete"}

InFlight(kinds) == {i \in DOMAIN net : net[i].kind \in kinds}

\* What a step shows and is: the handler outcome it is ("" for a step that is
\* none: an edit, a call issued or executed, a fetch delivered) and the notice
\* it raised through toast(), "" when it raised none.
Did(step, notice) == [step |-> step, toast |-> notice]

---------------------------------------------------------------------------
\* Rendering of LocationDetail: which component instances are mounted.

\* {user && favorite && ( ... notes, Reviews section ... )}
SectionShown(u, f) == u # Null /\ f # Null

\* {user && favorite && !userReview && <ReviewForm/>}
\* {user && userReview && <ReviewForm existingReview={userReview}/>}
FormSlot(u, f, ur) ==
    IF ~SectionShown(u, f) THEN "none"
    ELSE IF ur = Null THEN "new" ELSE "edit"

\* useState(existingReview?.rating || 0), useState(existingReview?.title || ""), ...
InitialForm(slot, existing) ==
    [slot |-> slot,
     rating |-> IF existing # Null THEN existing[1].rating ELSE 0,
     title |-> IF existing # Null THEN existing[1].title ELSE Blank,
     reviewText |-> IF existing # Null THEN existing[1].review_text ELSE Blank,
     programRatings |-> InitialProgramRatings,
     submitting |-> FALSE]

FormKept(u, f, ur, cur) == cur # Null /\ cur[1].slot = FormSlot(u, f, ur)

RenderForm(u, f, ur, cur) ==
    IF FormSlot(u, f, ur) = "none" THEN Null
    ELSE IF FormKept(u, f, ur, cur) THEN cur
    ELSE Some(InitialForm(FormSlot(u, f, ur), ur))

\* {!user && ( ... Sign in to write a review ... )}, inside the section.
SignInPromptShown(u, f) == SectionShown(u, f) /\ u = Null

\* reviews.map((review) => <ReviewCard key={review.id} .../>)
CardIds(u, f, rv) == IF SectionShown(u, f) THEN {r.id : r \in rv} ELSE {}

Orphaned(msgs, formKept, cardIds) ==
    [i \in DOMAIN msgs |->
        IF msgs[i].live /\ (   (msgs[i].src[1] = "form" /\ ~formKept)
                            \/ (msgs[i].src[1] = "card" /\ msgs[i].src[2] \notin cardIds))
        THEN [msgs[i] EXCEPT !.live = FALSE]
        ELSE msgs[i]]

\* React re-renders after a handler step: u, f, ur, rv are the page state the
\* step leaves, cur / vt / dl / msgs the component state and calls it leaves.
Paint(u, f, ur, rv, cur, vt, dl, msgs) ==
    /\ form' = RenderForm(u, f, ur, cur)
    /\ voting' = vt \cap CardIds(u, f, rv)
    /\ deleting' = dl \cap CardIds(u, f, rv)
    /\ net' = Orphaned(msgs, FormKept(u, f, ur, cur), CardIds(u, f, rv))

---------------------------------------------------------------------------
\* LocationDetail: the fetches.  A fetch closes over the `user` of the render
\* that called it.

\* fetchReviews: supabase.from("reviews").select(...).eq("location_id", id)
FetchReviews(u) ==
    << Call("reviews.select", Page, [location_id |-> LocId], [user |-> u, rows |-> {}]) >>

\* fetchUserReview: if (!user || !id) return;
FetchUserReview(u) ==
    IF u = Null THEN <<>>
    ELSE << Call("userReview.select", Page,
                 [user_id |-> u[1], location_id |-> LocId], [user |-> u, rows |-> {}]) >>

\* onReviewSubmitted={() => { fetchReviews(); fetchUserReview(); }}
OnReviewSubmitted(u) == FetchReviews(u) \o FetchUserReview(u)

\* const avg = data.reduce((sum, r) => sum + r.rating, 0) / data.length;
\* Math.round(avg * 10) / 10, held in tenths.
RECURSIVE SumRatings(_)
SumRatings(rows) ==
    IF rows = {} THEN 0
    ELSE LET r == CHOOSE x \in rows : TRUE IN r.rating + SumRatings(rows \ {r})

\* Mutant: the mean is cut, not rounded, to one decimal place.
FlooredAverage(rows) == (10 * SumRatings(rows)) \div Cardinality(rows)

RoundedAverage(rows) ==
    (2 * 10 * SumRatings(rows) + Cardinality(rows)) \div (2 * Cardinality(rows))

---------------------------------------------------------------------------
\* ReviewForm (src/components/ReviewForm.tsx; the variant without
\* programRatings is the older copy of the same file).
ReviewFormVariants == {"ReviewForm", "ReviewFormPlain"}
DetailedVariants == {"DetailedAccordion", "DetailedCollapsible"}
HasProgramRatings == variant = "ReviewForm"

FormShown == variant \in ReviewFormVariants /\ form # Null

\* onClick={() => setRating(star)}
SetRating(star) ==
    /\ FormShown
    /\ form' = Some([form[1] EXCEPT !.rating = star])
    /\ event' = Did("", "")
    /\ UNCHANGED <<variant, sideVars, storeVars, net, pageVars, cardVars, detailed, session>>

\* <Input value={title} onChange={(e) => setTitle(e.target.value)} maxLength={100}/>
SetTitle(t) ==
    /\ FormShown
    /\ Length(t) <= TitleMaxLength
    /\ form' = Some([form[1] EXCEPT !.title = t])
    /\ event' = Did("", "")
    /\ UNCHANGED <<variant, sideVars, storeVars, net, pageVars, cardVars, detailed, session>>

\* <Textarea value={reviewText} onChange={...setReviewText...} maxLength={2000}/>
SetReviewText(t) ==
    /\ FormShown
    /\ Length(t) <= MaxLength
    /\ form' = Some([form[1] EXCEPT !.reviewText = t])
    /\ event' = Did("", "")
    /\ UNCHANGED <<variant, sideVars, storeVars, net, pageVars, cardVars, detailed, session>>

\* onClick={() => setProgramRatings((prev) => ({ ...prev, [key]: s }))}
SetProgramRating(key, star) ==
    /\ FormShown /\ HasProgramRatings
    /\ form' = Some([form[1] EXCEPT !.programRatings[key] = star])
    /\ event' = Did("", "")
    /\ UNCHANGED <<variant, sideVars, storeVars, net, pageVars, cardVars, detailed, session>>

\* Mutant: handleSubmit without its rating === 0 check.
RatingNeverMissing(f) == FALSE

\* handleSubmit: the two early returns.
RatingMissing(f) == f.rating = 0
FieldsMissing(f) == ~Truthy(Trim(f.title)) \/ ~Truthy(Trim(f.reviewText))

\* handleSubmit: the payload of update(...) / insert([...]).
UpdatePatch(f) ==
    [rating |-> f.rating, title |-> Trim(f.title), review_text |-> Trim(f.reviewText),
     has_program_ratings |-> HasProgramRatings, program_ratings |-> f.programRatings]

InsertRow(f, userId) ==
    [id |-> 0, user_id |-> userId, location_id |-> LocId, rating |-> f.rating,
     title |-> Trim(f.title), review_text |-> Trim(f.reviewText),
     program_ratings |-> IF HasProgramRatings THEN f.programRatings ELSE EmptyJson]

SubmitCall(f) ==
    IF userReview # Null
    THEN Call("reviews.update", Form,
              [id |-> userReview[1].id, patch |-> UpdatePatch(f)],
              [user |-> user, rows |-> {}])
    ELSE Call("reviews.insert", Form, InsertRow(f, user[1]),
              [user |-> user, rows |-> {}])

\* ReviewForm.handleSubmit up to its await.  The submit button is
\* disabled={submitting}.
HandleSubmit ==
    /\ FormShown /\ ~form[1].submitting
    /\ IF RatingMissing(form[1])
       THEN /\ event' = Did("handleSubmit", "Rating required")
            /\ UNCHANGED <<net, form>>
       ELSE IF FieldsMissing(form[1])
       THEN /\ event' = Did("handleSubmit", "All fields required")
            /\ UNCHANGED <<net, form>>
       ELSE /\ Len(net) < MaxInFlight
            /\ form' = Some([form[1] EXCEPT !.submitting = TRUE])
            /\ net' = Put(net, SubmitCall(form[1]))
            /\ event' = Did("handleSubmit", "")
    /\ UNCHANGED <<variant, sideVars, storeVars, pageVars, cardVars, detailed, session>>

\* Mutant: the draft is cleared whether or not the write threw.
AfterSubmitCleared(f, m) ==
    [f EXCEPT !.rating = 0, !.title = Blank, !.reviewText = Blank]

\* handleSubmit after its await, the draft it leaves: only the insert branch
\* that did not throw runs setRating(0); setTitle(""); setReviewText("").
AfterSubmit(f, m) ==
    IF m.kind = "reviews.insert" /\ ~m.error
    THEN [f EXCEPT !.rating = 0, !.title = Blank, !.reviewText = Blank]
    ELSE f

\* ReviewForm.handleSubmit after its await: if (error) throw error; toast;
\* onReviewSubmitted(); catch: toast; finally setSubmitting(false).
SubmitReturned(i) ==
    LET m == net[i]
        rest == Remove(net, i)
    IN  /\ i \in DOMAIN net /\ m.stage = "resp" /\ m.kind \in SubmitKinds
        /\ IF m.error
           THEN /\ event' = Did("submitFailed", "Error: Failed to submit review.")
                /\ net' = rest
           ELSE /\ Len(rest) + Len(OnReviewSubmitted(m.ctx.user)) <= MaxInFlight
                /\ event' = Did("submitSucceeded",
                                IF m.kind = "reviews.update"
                                THEN "Review updated" ELSE "Review submitted")
                /\ net' = PutAll(rest, OnReviewSubmitted(m.ctx.user))
        /\ form' = IF form # Null /\ m.live
                   THEN Some([AfterSubmit(form[1], m) EXCEPT !.submitting = FALSE])
                   ELSE form
        /\ UNCHANGED <<variant, sideVars, storeVars, pageVars, cardVars, detailed, session>>

---------------------------------------------------------------------------
\* ReviewCard (the copy with the Delete button).

\* const isOwnReview = user?.id === review.user_id;
IsOwnReview(u, review) == u # Null /\ u[1] = review.user_id

\* handleDelete up to its await: if (!user || !isOwnReview) return; the
\* viewer confirms; the Delete button is disabled={deleting}.
HandleDelete(review) ==
    /\ review \in reviews /\ review.id \in CardIds(user, favorite, reviews)
    /\ IsOwnReview(user, review)
    /\ review.id \notin deleting
    /\ Len(net) < MaxInFlight
    /\ deleting' = deleting \cup {review.id}
    /\ net' = Put(net, Call("reviews.delete", Card(review.id), [id |-> review.id],
                               [user |-> user, rows |-> {}]))
    /\ event' = Did("", "")
    /\ UNCHANGED <<variant, sideVars, storeVars, pageVars, form, voting, detailed, session>>

\* handleDelete after its await; onVoteUpdate={fetchReviews}.
DeleteReturned(i) ==
    LET m == net[i]
        rest == Remove(net, i)
    IN  /\ i \in DOMAIN net /\ m.stage = "resp" /\ m.kind = "reviews.delete"
        /\ IF m.error
           THEN /\ event' = Did("deleteFailed", "Error: Failed to delete review.")
                /\ net' = rest
           ELSE /\ event' = Did("deleteSucceeded", "Review deleted")
                /\ net' = PutAll(rest, FetchReviews(m.ctx.user))
        /\ deleting' = IF m.live THEN deleting \ {m.src[2]} ELSE deleting
        /\ UNCHANGED <<variant, sideVars, storeVars, pageVars, form, voting, detailed, session>>

---------------------------------------------------------------------------
\* LocationDetail: the rest of each fetch, run when its response arrives.

\* fetchReviews after the reviews query: if (error) throw error; the
\* profiles query follows only for a non-empty result.
ReviewsReturned(i) ==
    LET m == net[i]
        rest == Remove(net, i)
        more == IF m.ctx.user # Null
                THEN << Call("helpfulness.select", Page, [ids |-> {}],
                             [user |-> m.ctx.user, rows |-> {}]) >>
                ELSE <<>>
    IN  /\ i \in DOMAIN net /\ m.stage = "resp" /\ m.kind = "reviews.select"
        /\ event' = Did("", "")
        /\ IF m.error
           THEN /\ net' = rest
                /\ UNCHANGED <<pageVars, form, cardVars>>
           ELSE IF m.data # {}
           THEN /\ net' = Put(rest, Call("profiles.select", Page,
                                            [user_ids |-> {r.user_id : r \in m.data}],
                                            [user |-> m.ctx.user, rows |-> m.data]))
                /\ UNCHANGED <<pageVars, form, cardVars>>
           ELSE /\ reviews' = {}
                /\ reviewCount' = 0
                /\ Paint(user, favorite, userReview, {}, form, voting, deleting,
                         PutAll(rest, more))
                /\ UNCHANGED <<user, favorite, userReview, helpfulness, averageRating>>
        /\ UNCHANGED <<variant, sideVars, storeVars, detailed, session>>

\* fetchReviews after the profiles query: setReviews, setReviewCount,
\* setAverageRating, then the helpfulness query if (user).
ProfilesReturned(i) ==
    LET m == net[i]
        rest == Remove(net, i)
        rows == m.ctx.rows
        more == IF m.ctx.user # Null
                THEN << Call("helpfulness.select", Page, [ids |-> {r.id : r \in rows}],
                             [user |-> m.ctx.user, rows |-> {}]) >>
                ELSE <<>>
    IN  /\ i \in DOMAIN net /\ m.stage = "resp" /\ m.kind = "profiles.select"
        /\ event' = Did("", "")
        /\ reviews' = rows
        /\ reviewCount' = Cardinality(rows)
        /\ averageRating' = Some(RoundedAverage(rows))
        /\ Paint(user, favorite, userReview, rows, form, voting, deleting,
                 PutAll(rest, more))
        /\ UNCHANGED <<user, favorite, userReview, helpfulness>>
        /\ UNCHANGED <<variant, sideVars, storeVars, detailed, session>>

\* fetchReviews after the helpfulness query: if (!helpError) setHelpfulness(...)
HelpfulnessReturned(i) ==
    LET m == net[i]
    IN  /\ i \in DOMAIN net /\ m.stage = "resp" /\ m.kind = "helpfulness.select"
        /\ event' = Did("", "")
        /\ helpfulness' = IF m.error THEN helpfulness ELSE m.data
        /\ net' = Remove(net, i)
        /\ UNCHANGED <<user, favorite, userReview, reviews, averageRating, reviewCount>>
        /\ UNCHANGED <<variant, sideVars, storeVars, form, cardVars, detailed, session>>

\* fetchUserReview after its query: if (error) throw error; setUserReview(data)
UserReviewReturned(i) ==
    LET m == net[i]
        ur == IF m.error THEN userReview ELSE RowOrNull(m.data)
    IN  /\ i \in DOMAIN net /\ m.stage = "resp" /\ m.kind = "userReview.select"
        /\ event' = Did("", "")
        /\ userReview' = ur
        /\ Paint(user, favorite, ur, reviews, form, voting, deleting, Remove(net, i))
        /\ UNCHANGED <<user, favorite, reviews, helpfulness, averageRating, reviewCount>>
        /\ UNCHANGED <<variant, sideVars, storeVars, detailed, session>>

---------------------------------------------------------------------------
\* ReviewCard: the Helpful button.

\* LocationDetail.userHasVoted
UserHasVoted(u, hs, reviewId) ==
    u # Null /\ \E h \in hs : h.review_id = reviewId /\ h.user_id = u[1]

\* LocationDetail.getHelpfulCount
GetHelpfulCount(hs, reviewId) == Cardinality({h \in hs : h.review_id = reviewId})

\* handleHelpfulVote: the call it makes, by its userHasVoted prop.
VoteCall(u, voted, reviewId) ==
    Call(IF voted THEN "votes.delete" ELSE "votes.insert", Card(reviewId),
         [review_id |-> reviewId, user_id |-> u[1]], [user |-> u, rows |-> {}])

\* Mutant: the Helpful button is not disabled while its vote is in flight.
HandleHelpfulVoteEnabled(review) ==
    /\ review \in reviews /\ review.id \in CardIds(user, favorite, reviews)
    /\ IF user = Null
       THEN /\ event' = Did("voteRefused", "Sign in required")
            /\ UNCHANGED <<net, voting>>
       ELSE /\ Len(net) < MaxInFlight
            /\ voting' = voting \cup {review.id}
            /\ net' = Put(net, VoteCall(user, UserHasVoted(user, helpfulness, review.id),
                                        review.id))
            /\ event' = Did("", "")
    /\ UNCHANGED <<variant, sideVars, storeVars, pageVars, form, deleting, detailed,
                   session>>

\* ReviewCard.handleHelpfulVote up to its await.  The button is
\* disabled={voting}.
HandleHelpfulVote(review) ==
    /\ review \in reviews /\ review.id \in CardIds(user, favorite, reviews)
    /\ review.id \notin voting
    /\ IF user = Null
       THEN /\ event' = Did("voteRefused", "Sign in required")
            /\ UNCHANGED <<net, voting>>
       ELSE /\ Len(net) < MaxInFlight
            /\ voting' = voting \cup {review.id}
            /\ net' = Put(net, VoteCall(user, UserHasVoted(user, helpfulness, review.id),
                                        review.id))
            /\ event' = Did("", "")
    /\ UNCHANGED <<variant, sideVars, storeVars, pageVars, form, deleting, detailed,
                   session>>

\* handleHelpfulVote after its await: onVoteUpdate() (the page's fetchReviews);
\* catch: toast; finally setVoting(false).
VoteReturned(i) ==
    LET m == net[i]
        rest == Remove(net, i)
    IN  /\ i \in DOMAIN net /\ m.stage = "resp" /\ m.kind \in VoteKinds
        /\ IF m.error
           THEN /\ event' = Did("voteFailed", "Error: Failed to record your vote.")
                /\ net' = rest
           ELSE /\ event' = Did("voteSucceeded", "")
                /\ net' = PutAll(rest, FetchReviews(m.ctx.user))
        /\ voting' = IF m.live THEN voting \ {m.src[2]} ELSE voting
        /\ UNCHANGED <<variant, sideVars, storeVars, pageVars, form, deleting, detailed,
                       session>>

---------------------------------------------------------------------------
\* Favorites: the heart button of the location page and of the ProgramCard.

\* Does the store hold the viewer's favorite of the location?
FavoriteStored == \E r \in sFavorites : r.user_id = Viewer /\ r.location_id = LocId

\* A toggle is started / has completed (history only).
HistClick(cleanNow) ==
    [hist EXCEPT !.started = @ + 1,
                 !.orig = IF hist.started = 0 THEN FavoriteStored ELSE @,
                 !.clean = @ /\ cleanNow]
HistDone(ok) == [hist EXCEPT !.done = @ + 1, !.ok = @ /\ ok]

\* fetchFavorite: if (!user || !id) return;
FetchFavorite(u) ==
    IF u = Null THEN <<>>
    ELSE << Call("favorites.select", Page,
                 [user_id |-> u[1], location_id |-> LocId], [user |-> u, rows |-> {}]) >>

\* data.notes || ""
NotesOrEmpty(n) == IF n = Null THEN Blank ELSE n[1]

\* fetchFavorite after its query: if (error) throw error;
\* if (data) { setFavorite(data); setNotes(data.notes || ""); setVisited(data.visited); }
FavoriteReturned(i) ==
    LET m == net[i]
        got == ~m.error /\ m.data # {}
        f == IF got THEN RowOrNull(m.data) ELSE favorite
    IN  /\ i \in DOMAIN net /\ m.stage = "resp" /\ m.kind = "favorites.select"
        /\ event' = Did("", "")
        /\ favorite' = f
        /\ notes' = IF got THEN NotesOrEmpty(f[1].notes) ELSE notes
        /\ visited' = IF got THEN f[1].visited ELSE visited
        /\ Paint(user, f, userReview, reviews, form, voting, deleting, Remove(net, i))
        /\ UNCHANGED <<user, userReview, reviews, helpfulness, averageRating, reviewCount>>
        /\ UNCHANGED <<variant, dirVars, storeVars, detailed, session, route, progVars, hist>>

\* supabase.auth.getSession(), called by the mount effect.
GetSession == << Call("auth.getSession", Page, [id |-> LocId], [user |-> Null, rows |-> {}]) >>

\* .then(({ data: { session } }) => setUser(session?.user ?? null)) and the
\* [user, id] effect: if (user && id) { fetchFavorite(); fetchUserReview(); }.
\* The [id, sortBy] effect does not run again: fetchReviews is not issued.
SessionReturned(i) ==
    LET m == net[i]
        u == IF m.error THEN Null ELSE m.uid
    IN  /\ i \in DOMAIN net /\ m.stage = "resp" /\ m.kind = "auth.getSession"
        /\ user' = u
        /\ event' = Did("", "")
        /\ Paint(u, favorite, userReview, reviews, form, voting, deleting,
                 PutAll(Remove(net, i), FetchFavorite(u) \o FetchUserReview(u)))
        /\ UNCHANGED <<favorite, userReview, reviews, helpfulness, averageRating,
                       reviewCount>>
        /\ UNCHANGED <<variant, dirVars, storeVars, detailed, session, route, notes, visited,
                       progVars, hist>>

\* supabase.auth.onAuthStateChange((_event, session) => setUser(session?.user ?? null))
\* and the [user, id] effect it triggers: if (user && id) { fetchFavorite();
\* fetchUserReview(); }.  Nothing else is reset.
AuthStateChange(s) ==
    /\ route = "location"
    /\ Len(net) + 2 <= MaxInFlight
    /\ session' = s
    /\ user' = s
    /\ event' = Did("authChanged", "")
    /\ Paint(s, favorite, userReview, reviews, form, voting, deleting,
             PutAll(net, FetchFavorite(s) \o FetchUserReview(s)))
    /\ UNCHANGED <<favorite, userReview, reviews, helpfulness, averageRating, reviewCount>>
    /\ UNCHANGED <<variant, dirVars, storeVars, detailed, route, notes, visited, progVars,
                   hist>>

\* handleToggleFavorite: the call it makes, by the favorite the page holds.
ToggleCall(u, f) ==
    IF f # Null
    THEN Call("favorites.delete", Page, [id |-> f[1].id], [user |-> u, rows |-> {}])
    ELSE Call("favorites.insert", Page,
              [user_id |-> u[1], location_id |-> LocId, returning |-> TRUE],
              [user |-> u, rows |-> {}])

\* The page's favorite agrees with the store and no other toggle is in flight.
PageToggleClean ==
    /\ InFlight(FavoriteKinds) = {}
    /\ IF favorite = Null THEN ~FavoriteStored
       ELSE \E r \in sFavorites :
                r.id = favorite[1].id /\ r.user_id = Viewer /\ r.location_id = LocId

\* Mutant: the refusal shows its notice and stays on the page.
HandleToggleFavoriteNoRedirect ==
    /\ route = "location"
    /\ IF user = Null
       THEN /\ event' = Did("toggleRefused", "Sign in required")
            /\ UNCHANGED <<net, hist, route>>
       ELSE /\ Len(net) < MaxInFlight /\ hist.started < MaxToggles
            /\ net' = Put(net, ToggleCall(user, favorite))
            /\ hist' = HistClick(PageToggleClean)
            /\ event' = Did("", "")
            /\ UNCHANGED route
    /\ UNCHANGED <<variant, dirVars, storeVars, pageVars, form, cardVars, detailed, session,
                   notes, visited, progVars>>

\* LocationDetail.handleToggleFavorite up to its await.  The button is never
\* disabled.  if (!user) { toast; navigate("/auth"); return; }
HandleToggleFavorite ==
    /\ route = "location"
    /\ IF user = Null
       THEN /\ event' = Did("toggleRefused", "Sign in required")
            /\ route' = "auth"
            /\ UNCHANGED <<net, hist>>
       ELSE /\ Len(net) < MaxInFlight /\ hist.started < MaxToggles
            /\ net' = Put(net, ToggleCall(user, favorite))
            /\ hist' = HistClick(PageToggleClean)
            /\ event' = Did("", "")
            /\ UNCHANGED route
    /\ UNCHANGED <<variant, dirVars, storeVars, pageVars, form, cardVars, detailed, session,
                   notes, visited, progVars>>

\* handleToggleFavorite after its await.
ToggleReturned(i) ==
    LET m == net[i]
        rest == Remove(net, i)
        f == IF m.kind = "favorites.delete" THEN Null ELSE RowOrNull(m.data)
    IN  /\ i \in DOMAIN net /\ m.stage = "resp" /\ m.kind \in FavoriteKinds
        /\ m.src = Page
        /\ IF m.error
           THEN /\ event' = Did("toggleFailed", "Error: Failed to update favorites.")
                /\ net' = rest
                /\ UNCHANGED <<favorite, notes, visited, form, cardVars>>
           ELSE /\ event' = Did("toggleSucceeded",
                                IF m.kind = "favorites.delete"
                                THEN "Removed from favorites" ELSE "Added to favorites")
                /\ favorite' = f
                /\ notes' = IF m.kind = "favorites.delete" THEN Blank ELSE notes
                /\ visited' = IF m.kind = "favorites.delete" THEN FALSE ELSE visited
                /\ Paint(user, f, userReview, reviews, form, voting, deleting, rest)
        /\ hist' = HistDone(~m.error)
        /\ UNCHANGED <<user, userReview, reviews, helpfulness, averageRating, reviewCount>>
        /\ UNCHANGED <<variant, dirVars, storeVars, detailed, session, route, progVars>>

\* The Textarea of "Your Notes": onChange={(e) => setNotes(e.target.value)}
SetNotes(n) ==
    /\ route = "location" /\ SectionShown(user, favorite)
    /\ notes' = n
    /\ event' = Did("", "")
    /\ UNCHANGED <<variant, dirVars, storeVars, net, pageVars, form, cardVars, detailed,
                   session, route, visited, progVars, hist>>

\* The Checkbox: onCheckedChange={(checked) => setVisited(checked as boolean)}
SetVisited(b) ==
    /\ route = "location" /\ SectionShown(user, favorite)
    /\ visited' = b
    /\ event' = Did("", "")
    /\ UNCHANGED <<variant, dirVars, storeVars, net, pageVars, form, cardVars, detailed,
                   session, route, notes, progVars, hist>>

\* new Date().toISOString().split('T')[0]
Today == "today"

\* Mutant: the date is written whatever the flag.
VisitDateAlways(v) == Some(Today)

\* visit_date: visited ? <today> : null
VisitDate(v) == IF v THEN Some(Today) ELSE Null

\* handleSaveNotes: the one update it sends.
SaveNotesCall(u, f, n, v) ==
    Call("favorites.update", Page,
         [id |-> f[1].id,
          patch |-> [notes |-> Some(n), visited |-> v, visit_date |-> VisitDate(v)]],
         [user |-> u, rows |-> {}])

\* handleSaveNotes up to its await: if (!user || !favorite) return;
\* setSavingNotes(true).  The button is disabled while savingNotes.
HandleSaveNotes ==
    /\ route = "location" /\ SectionShown(user, favorite)
    /\ ~savingNotes
    /\ Len(net) < MaxInFlight
    /\ savingNotes' = TRUE
    /\ net' = Put(net, SaveNotesCall(user, favorite, notes, visited))
    /\ event' = Did("", "")
    /\ UNCHANGED <<sLocations, sProfiles, sUsers, location, loading, locations,
                   searchQuery, countyFilter, pRatings, pLoading>>
    /\ UNCHANGED <<variant, storeVars, pageVars, form, cardVars, detailed, session,
                   route, notes, visited, progVars, hist>>

\* Mutant: setSavingNotes(false) at the end of the try block, not in finally.
SaveNotesReturnedNoFinally(i) ==
    LET m == net[i]
    IN  /\ i \in DOMAIN net /\ m.stage = "resp" /\ m.kind = "favorites.update"
        /\ event' = IF m.error THEN Did("notesFailed", "Error: Failed to save notes.")
                     ELSE Did("notesSaved", "Notes saved")
        /\ savingNotes' = m.error
        /\ net' = Remove(net, i)
        /\ UNCHANGED <<sLocations, sProfiles, sUsers, location, loading, locations,
                       searchQuery, countyFilter, pRatings, pLoading>>
        /\ UNCHANGED <<variant, storeVars, pageVars, form, cardVars, detailed, session,
                       route, notes, visited, progVars, hist>>

\* handleSaveNotes after its await: if (error) throw error; toast "Notes saved";
\* catch toast "Failed to save notes."; finally setSavingNotes(false).
SaveNotesReturned(i) ==
    LET m == net[i]
    IN  /\ i \in DOMAIN net /\ m.stage = "resp" /\ m.kind = "favorites.update"
        /\ event' = IF m.error THEN Did("notesFailed", "Error: Failed to save notes.")
                     ELSE Did("notesSaved", "Notes saved")
        /\ savingNotes' = FALSE
        /\ net' = Remove(net, i)
        /\ UNCHANGED <<sLocations, sProfiles, sUsers, location, loading, locations,
                       searchQuery, countyFilter, pRatings, pLoading>>
        /\ UNCHANGED <<variant, storeVars, pageVars, form, cardVars, detailed, session,
                       route, notes, visited, progVars, hist>>

\* Programs.isFavorited
IsFavorited(locationId) == \E f \in pFavorites : f.location_id = locationId

\* Programs.fetchFavorites: if (!user) return;
FetchFavorites(u) ==
    IF u = Null THEN <<>>
    ELSE << Call("favorites.list", Programs, [user_id |-> u[1]],
                 [user |-> u, rows |-> {}]) >>

\* fetchFavorites after its query: if (error) throw error; setFavorites(data || [])
FavoritesListReturned(i) ==
    LET m == net[i]
    IN  /\ i \in DOMAIN net /\ m.stage = "resp" /\ m.kind = "favorites.list"
        /\ event' = Did("", "")
        /\ pFavorites' = IF m.error THEN pFavorites ELSE m.data
        /\ net' = Remove(net, i)
        /\ UNCHANGED <<variant, dirVars, storeVars, pageVars, form, cardVars, detailed, session,
                       route, notes, visited, pUser, cardUser, isTogglingFavorite, hist>>

\* ProgramCard.handleFavoriteToggle: the call it makes, by its isFavorited prop.
CardToggleCall(u, favorited, pageUser) ==
    IF favorited
    THEN Call("favorites.delete", ProgramCard,
              [user_id |-> u[1], location_id |-> LocId], [user |-> pageUser, rows |-> {}])
    ELSE Call("favorites.insert", ProgramCard,
              [user_id |-> u[1], location_id |-> LocId, returning |-> FALSE],
              [user |-> pageUser, rows |-> {}])

\* The card's isFavorited agrees with the store and no other toggle is in flight.
CardToggleClean ==
    /\ InFlight(FavoriteKinds) = {}
    /\ IsFavorited(LocId) <=> FavoriteStored

\* ProgramCard.handleFavoriteToggle up to its await.  The button is
\* disabled={isTogglingFavorite}.
HandleFavoriteToggle ==
    /\ route = "programs" /\ ~isTogglingFavorite
    /\ IF cardUser = Null
       THEN /\ event' = Did("toggleRefused", "Sign in required")
            /\ route' = "auth"
            /\ UNCHANGED <<net, hist, isTogglingFavorite>>
       ELSE /\ Len(net) < MaxInFlight /\ hist.started < MaxToggles
            /\ isTogglingFavorite' = TRUE
            /\ net' = Put(net, CardToggleCall(cardUser, IsFavorited(LocId), pUser))
            /\ hist' = HistClick(CardToggleClean)
            /\ event' = Did("", "")
            /\ UNCHANGED route
    /\ UNCHANGED <<variant, dirVars, storeVars, pageVars, form, cardVars, detailed, session,
                   notes, visited, pUser, pFavorites, cardUser>>

\* handleFavoriteToggle after its await: toast; onFavoriteToggle?.() (the
\* page's fetchFavorites); catch: toast; finally setIsTogglingFavorite(false).
CardToggleReturned(i) ==
    LET m == net[i]
        rest == Remove(net, i)
    IN  /\ i \in DOMAIN net /\ m.stage = "resp" /\ m.kind \in FavoriteKinds
        /\ m.src = ProgramCard
        /\ IF m.error
           THEN /\ event' = Did("toggleFailed",
                                "Error: Failed to update favorites. Please try again.")
                /\ net' = rest
           ELSE /\ event' = Did("toggleSucceeded",
                                IF m.kind = "favorites.delete"
                                THEN "Removed from favorites" ELSE "Added to favorites")
                /\ net' = PutAll(rest, FetchFavorites(m.ctx.user))
        /\ isTogglingFavorite' = FALSE
        /\ hist' = HistDone(~m.error)
        /\ UNCHANGED <<variant, dirVars, storeVars, pageVars, form, cardVars, detailed, session,
                       route, notes, visited, pUser, pFavorites, cardUser>>

---------------------------------------------------------------------------
\* DetailedReviewForm: the accordion draft (src/components/review/
\* DetailedReviewForm.tsx: overallRating, one selectedType, qualityScores) and
\* the collapsible draft (selectedTypes, ratings).  Neither writes to the
\* store: the submission is a placeholder timer.
InitialDetailed ==
    [overallRating |-> 0, selectedType |-> "", selectedTypes |-> <<>>,
     qualityScores |-> [k \in ProgramKeys |-> 3], ratings |-> EmptyJson,
     reviewText |-> Blank, selectedActions |-> <<>>, selectedContextTags |-> <<>>,
     visibility |-> "public", submitting |-> FALSE]

DetailedShown == variant \in DetailedVariants
Accordion == variant = "DetailedAccordion"
Collapsible == variant = "DetailedCollapsible"

DetailedFrame ==
    UNCHANGED <<variant, sideVars, storeVars, net, pageVars, form, cardVars, session>>

\* prev.includes(x) ? prev.filter((a) => a !== x) : [...prev, x]
Includes(seq, x) == \E j \in DOMAIN seq : seq[j] = x
Toggled(seq, x) ==
    IF Includes(seq, x) THEN SelectSeq(seq, LAMBDA a : a # x) ELSE Append(seq, x)

\* onClick={() => setOverallRating(star)}
SetOverallRating(star) ==
    /\ Accordion
    /\ detailed' = [detailed EXCEPT !.overallRating = star]
    /\ event' = Did("", "")
    /\ DetailedFrame

\* <RadioGroup value={selectedType} onValueChange={setSelectedType}>
SetSelectedType(t) ==
    /\ Accordion
    /\ detailed' = [detailed EXCEPT !.selectedType = t]
    /\ event' = Did("", "")
    /\ DetailedFrame

\* <Slider min={1} max={5} onValueChange={... [metric.id]: value[0] ...}/>
SetQualityScore(metric, v) ==
    /\ Accordion
    /\ v >= MinRating /\ v <= MaxRating
    /\ detailed' = [detailed EXCEPT !.qualityScores[metric] = v]
    /\ event' = Did("", "")
    /\ DetailedFrame

\* toggleReviewType
ToggleReviewType(t) ==
    /\ Collapsible
    /\ detailed' = [detailed EXCEPT !.selectedTypes = Toggled(@, t)]
    /\ event' = Did("", "")
    /\ DetailedFrame

\* const showRatings = selectedTypes.includes("general");
\* setRatings((prev) => ({ ...prev, [category.id]: value }))
SetCategoryRating(cat, star) ==
    /\ Collapsible
    /\ Includes(detailed.selectedTypes, "general")
    /\ detailed' = [detailed EXCEPT !.ratings =
                       [k \in DOMAIN @ \cup {cat} |-> IF k = cat THEN star ELSE @[k]]]
    /\ event' = Did("", "")
    /\ DetailedFrame

\* <Textarea onChange={(e) => setReviewText(e.target.value)} maxLength={maxChars}/>
SetDetailedText(t) ==
    /\ DetailedShown
    /\ Length(t) <= MaxLength
    /\ detailed' = [detailed EXCEPT !.reviewText = t]
    /\ event' = Did("", "")
    /\ DetailedFrame

\* toggleAction
ToggleAction(a) ==
    /\ DetailedShown
    /\ detailed' = [detailed EXCEPT !.selectedActions = Toggled(@, a)]
    /\ event' = Did("", "")
    /\ DetailedFrame

\* TagSelector.toggleTag -> onChange={setSelectedContextTags}
ToggleTag(tag) ==
    /\ DetailedShown
    /\ detailed' = [detailed EXCEPT !.selectedContextTags = Toggled(@, tag)]
    /\ event' = Did("", "")
    /\ DetailedFrame

\* <RadioGroup value={visibility} onValueChange={(v) => setVisibility(v)}>
SetVisibility(v) ==
    /\ DetailedShown
    /\ detailed' = [detailed EXCEPT !.visibility = v]
    /\ event' = Did("", "")
    /\ DetailedFrame

\* The "Reset form" block of handleSubmit and the Cancel button.
ResetDetailed(d) ==
    IF Accordion
    THEN [d EXCEPT !.overallRating = 0, !.selectedType = "",
                   !.qualityScores = [k \in ProgramKeys |-> 3], !.reviewText = Blank,
                   !.selectedActions = <<>>, !.selectedContextTags = <<>>,
                   !.visibility = "public"]
    ELSE [d EXCEPT !.selectedTypes = <<>>, !.ratings = EmptyJson, !.reviewText = Blank,
                   !.selectedActions = <<>>, !.selectedContextTags = <<>>,
                   !.visibility = "public"]

CancelDetailed ==
    /\ DetailedShown
    /\ detailed' = ResetDetailed(detailed)
    /\ event' = Did("", "")
    /\ DetailedFrame

\* DetailedReviewForm.handleSubmit: the early returns, "" when there is none.
DetailedRejection(d) ==
    IF Accordion
    THEN IF d.overallRating = 0 THEN "Overall rating required"
         ELSE IF d.selectedType = "" THEN "Focus area required"
         ELSE IF ~Truthy(Trim(d.reviewText)) THEN "Description required"
         ELSE ""
    ELSE IF Len(d.selectedTypes) = 0 THEN "Review type required"
         ELSE IF ~Truthy(Trim(d.reviewText)) THEN "Description required"
         ELSE ""

\* handleSubmit up to its await; the submit button is disabled={submitting}.
SubmitDetailed ==
    /\ DetailedShown /\ ~detailed.submitting
    /\ event' = Did("handleSubmit", DetailedRejection(detailed))
    /\ detailed' = IF DetailedRejection(detailed) = ""
                   THEN [detailed EXCEPT !.submitting = TRUE]
                   ELSE detailed
    /\ DetailedFrame

\* handleSubmit after await new Promise((resolve) => setTimeout(resolve, 1000)):
\* toast, reset form, onReviewSubmitted(), finally setSubmitting(false).
DetailedSubmitted ==
    /\ DetailedShown /\ detailed.submitting
    /\ event' = Did("submitSucceeded", "Review submitted")
    /\ detailed' = [ResetDetailed(detailed) EXCEPT !.submitting = FALSE]
    /\ DetailedFrame

---------------------------------------------------------------------------
\* The directory: strings of the locations table and of the Programs filters,
\* character by character.
UpperCase == <<"A", "B", "C", "D", "E", "F", "G", "H", "I", "J", "K", "L", "M",
               "N", "O", "P", "Q", "R", "S", "T", "U", "V", "W", "X", "Y", "Z">>
LowerCase == <<"a", "b", "c", "d", "e", "f", "g", "h", "i", "j", "k", "l", "m",
               "n", "o", "p", "q", "r", "s", "t", "u", "v", "w", "x", "y", "z">>
\* \s of a regular expression, the white space of String.prototype.trim
WhiteSpace == {" ", "\t", "\n"}

ToLower(ch) ==
    IF \E k \in DOMAIN UpperCase : UpperCase[k] = ch
    THEN LowerCase[CHOOSE k \in DOMAIN UpperCase : UpperCase[k] = ch]
    ELSE ch

\* String.prototype.toLowerCase
ToLowerCase(s) == [k \in 1..Len(s) |-> ToLower(s[k])]

\* String.prototype.includes
StrIncludes(s, q) ==
    \E k \in 0..Len(s) : k + Len(q) <= Len(s) /\ SubSeq(s, k + 1, k + Len(q)) = q

\* String.prototype.trim
TrimString(s) ==
    LET keep == {k \in 1..Len(s) : s[k] \notin WhiteSpace}
    IN  IF keep = {} THEN <<>>
        ELSE SubSeq(s, CHOOSE k \in keep : \A j \in keep : k <= j,
                       CHOOSE k \in keep : \A j \in keep : j <= k)

CountyWord == <<"c", "o", "u", "n", "t", "y">>

\* c.replace(/\s+county$/i, ""): the match is the word at the very end of the
\* string together with the whole run of white space before it.
ReplaceCountySuffix(c) ==
    LET n == Len(c)
        w == Len(CountyWord)
        matches == /\ n > w
                   /\ ToLowerCase(SubSeq(c, n - w + 1, n)) = CountyWord
                   /\ c[n - w] \in WhiteSpace
        first == CHOOSE k \in 1..(n - w) :
                     /\ \A j \in k..(n - w) : c[j] \in WhiteSpace
                     /\ k = 1 \/ c[k - 1] \notin WhiteSpace
    IN  IF matches THEN SubSeq(c, 1, first - 1) ELSE c

\* const normalizeCounty = (c) => (c || "").replace(/\s+county$/i, "").trim().toLowerCase()
NormalizeCounty(c) == ToLowerCase(TrimString(ReplaceCountySuffix(c)))

\* NY_COUNTIES[0], the sentinel of the county selector
AllCounties == <<"A", "l", "l", " ", "C", "o", "u", "n", "t", "i", "e", "s">>

\* Mutant: the search ignores the services of the organization.
MatchesSearchNoServices(l, q) ==
    \/ q = <<>>
    \/ StrIncludes(ToLowerCase(l.organizations.name), ToLowerCase(q))
    \/ StrIncludes(ToLowerCase(l.city), ToLowerCase(q))
    \/ StrIncludes(ToLowerCase(l.county), ToLowerCase(q))

\* Programs.filteredLocations: matchesSearch
MatchesSearch(l, q) ==
    \/ q = <<>>
    \/ StrIncludes(ToLowerCase(l.organizations.name), ToLowerCase(q))
    \/ StrIncludes(ToLowerCase(l.city), ToLowerCase(q))
    \/ StrIncludes(ToLowerCase(l.county), ToLowerCase(q))
    \/ IF l.organizations.services = Null THEN FALSE
       ELSE \E k \in DOMAIN l.organizations.services[1] :
                StrIncludes(ToLowerCase(l.organizations.services[1][k]), ToLowerCase(q))

\* Programs.filteredLocations: matchesCounty
MatchesCounty(l, cf) ==
    cf = AllCounties \/ NormalizeCounty(l.county) = NormalizeCounty(cf)

\* Programs.filteredLocations
FilteredLocations(ls, q, cf) ==
    LET Passes(l) == MatchesSearch(l, q) /\ MatchesCounty(l, cf)
    IN  SelectSeq(ls, Passes)

\* .order("city"): letters compare without case, any other character sorts
\* before them; rows with equal cities come in any order.
CharRank(ch) ==
    IF \E k \in DOMAIN LowerCase : LowerCase[k] = ToLower(ch)
    THEN CHOOSE k \in DOMAIN LowerCase : LowerCase[k] = ToLower(ch)
    ELSE 0

Before(a, b) ==
    \E k \in 1..(Len(a) + 1) :
        /\ k <= Len(b)
        /\ \A j \in 1..(k - 1) : CharRank(a[j]) = CharRank(b[j])
        /\ k > Len(a) \/ CharRank(a[k]) < CharRank(b[k])

OrderByCity(rows) ==
    CHOOSE ls \in [1..Cardinality(rows) -> rows] :
        /\ \A r \in rows : \E k \in DOMAIN ls : ls[k] = r
        /\ \A i, j \in DOMAIN ls : i < j => ~Before(ls[j].city, ls[i].city)

\* A list as the data of a response: its rows with their positions.
Listed(ls) == {[pos |-> k, row |-> ls[k]] : k \in DOMAIN ls}
Unlisted(data) == [k \in 1..Cardinality(data) |-> (CHOOSE d \in data : d.pos = k).row]

\* Mutant: the view truncates the mean to one decimal place.
TruncatedTenths(sum, n) == (10 * sum) \div n

\* ROUND(AVG(rating)::numeric, 1), in tenths: numeric rounding takes a tie away
\* from zero.
RoundedTenths(sum, n) ==
    LET q == (10 * sum) \div n
        r == (10 * sum) % n
    IN  IF 2 * r >= n THEN q + 1 ELSE q

RECURSIVE SumOf(_)
SumOf(rows) ==
    IF rows = {} THEN 0
    ELSE LET r == CHOOSE x \in rows : TRUE IN r.rating + SumOf(rows \ {r})

\* VIEW location_ratings: SELECT location_id, COUNT(*), ROUND(AVG(rating)::numeric, 1)
\* FROM reviews GROUP BY location_id
LocationRatings(tbl) ==
    {[location_id |-> l,
      review_count |-> Cardinality({r \in tbl : r.location_id = l}),
      average_rating |-> RoundedTenths(SumOf({r \in tbl : r.location_id = l}),
                                       Cardinality({r \in tbl : r.location_id = l}))] :
        l \in {r.location_id : r \in tbl}}

\* Programs.fetchRatings up to its await
FetchRatings ==
    << Call("ratings.list", Programs, [view |-> "location_ratings"],
            [user |-> Null, rows |-> {}]) >>

\* Programs.fetchRatings after its query: setRatings(data || []); catch:
\* console.error only.
RatingsReturned(i) ==
    LET m == net[i]
    IN  /\ i \in DOMAIN net /\ m.stage = "resp" /\ m.kind = "ratings.list"
        /\ event' = Did("", "")
        /\ pRatings' = IF m.error THEN pRatings ELSE m.data
        /\ net' = Remove(net, i)
        /\ UNCHANGED <<sLocations, sProfiles, sUsers, location, loading, savingNotes,
                       locations, searchQuery, countyFilter, pLoading>>
        /\ UNCHANGED <<variant, storeVars, pageVars, form, cardVars, detailed, session,
                       route, notes, visited, progVars, hist>>

\* Programs.getRating
GetRating(rs, locationId) ==
    IF \E r \in rs : r.location_id = locationId
    THEN Some(CHOOSE r \in rs : r.location_id = locationId)
    ELSE Null

\* LocationDetail.fetchLocation up to its await
FetchLocation ==
    << Call("location.select", Page, [id |-> LocId], [user |-> Null, rows |-> {}]) >>

\* fetchLocation after its query: if (error) throw error; setLocation(data);
\* catch: toast "Failed to load location details."; finally setLoading(false).
LocationReturned(i) ==
    LET m == net[i]
    IN  /\ i \in DOMAIN net /\ m.stage = "resp" /\ m.kind = "location.select"
        /\ IF m.error
           THEN /\ event' = Did("locationFailed", "Error: Failed to load location details.")
                /\ UNCHANGED location
           ELSE /\ event' = Did("", "")
                /\ location' = RowOrNull(m.data)
        /\ loading' = FALSE
        /\ net' = Remove(net, i)
        /\ UNCHANGED <<sLocations, sProfiles, sUsers, savingNotes, locations,
                       searchQuery, countyFilter, pRatings, pLoading>>
        /\ UNCHANGED <<variant, storeVars, pageVars, form, cardVars, detailed, session,
                       route, notes, visited, progVars, hist>>

\* if (loading) spinner; if (!location) "Location not found."
NotFoundShown == route = "location" /\ ~loading /\ location = Null

\* Programs.fetchLocations up to its await
FetchLocations ==
    << Call("locations.list", Programs, [order |-> "city"], [user |-> Null, rows |-> {}]) >>

\* Programs.fetchLocations after its query: setLocations(data || []);
\* catch: toast; finally setLoading(false).
LocationsReturned(i) ==
    LET m == net[i]
    IN  /\ i \in DOMAIN net /\ m.stage = "resp" /\ m.kind = "locations.list"
        /\ IF m.error
           THEN /\ event' = Did("locationsFailed",
                                "Error: Failed to load programs. Please try again.")
                /\ UNCHANGED locations
           ELSE /\ event' = Did("", "")
                /\ locations' = Unlisted(m.data)
        /\ pLoading' = FALSE
        /\ net' = Remove(net, i)
        /\ UNCHANGED <<sLocations, sProfiles, sUsers, location, loading, savingNotes,
                       searchQuery, countyFilter, pRatings>>
        /\ UNCHANGED <<variant, storeVars, pageVars, form, cardVars, detailed, session,
                       route, notes, visited, progVars, hist>>

\* onSearchChange={setSearchQuery}
SetSearchQuery(q) ==
    /\ route = "programs"
    /\ searchQuery' = q
    /\ event' = Did("", "")
    /\ UNCHANGED <<sLocations, sProfiles, sUsers, location, loading, savingNotes,
                   locations, countyFilter, pRatings, pLoading>>
    /\ UNCHANGED <<variant, storeVars, net, pageVars, form, cardVars, detailed, session,
                   route, notes, visited, progVars, hist>>

\* onCountyChange={setCountyFilter}
SetCountyFilter(c) ==
    /\ route = "programs"
    /\ countyFilter' = c
    /\ event' = Did("", "")
    /\ UNCHANGED <<sLocations, sProfiles, sUsers, location, loading, savingNotes,
                   locations, searchQuery, pRatings, pLoading>>
    /\ UNCHANGED <<variant, storeVars, net, pageVars, form, cardVars, detailed, session,
                   route, notes, visited, progVars, hist>>

---------------------------------------------------------------------------
\* Foreign keys and their cascades.  No page deletes a location, a profile or
\* an account and no policy lets a client do it: the deletions are statements
\* run on the database by its owner.

LocationIds(tbl) == {l.id : l \in tbl}

\* An INSERT whose row refers to a missing row is rejected (foreign keys are
\* checked after the policy and the other constraints of the row).
ForeignKey(r, tbl, ok) ==
    IF r.error \/ ok THEN r ELSE [r EXCEPT !.error = TRUE, !.code = "fkey", !.table = tbl]

\* favorites.location_id, reviews.location_id REFERENCES locations(id) ON
\* DELETE CASCADE, and from the reviews on to their votes.
DeleteLocation(l) ==
    LET kept == {r \in sReviews : r.location_id # l.id}
    IN  /\ l \in sLocations
        /\ sLocations' = sLocations \ {l}
        /\ sFavorites' = {f \in sFavorites : f.location_id # l.id}
        /\ sReviews' = kept
        /\ sVotes' = VotesCascade(sVotes, kept)
        /\ event' = Did("", "")
        /\ UNCHANGED <<sProfiles, sUsers, location, loading, savingNotes, locations,
                       searchQuery, countyFilter, pRatings, pLoading>>
        /\ UNCHANGED <<variant, nextId, net, pageVars, form, cardVars, detailed, session,
                       route, notes, visited, progVars, hist>>

\* favorites.user_id REFERENCES profiles(id) ON DELETE CASCADE; reviews.user_id
\* and review_helpfulness.user_id refer to auth.users, not to profiles.
ProfileCascade(p) ==
    /\ sProfiles' = sProfiles \ {p}
    /\ sFavorites' = {f \in sFavorites : f.user_id # p}

\* DELETE FROM profiles WHERE id = ...
DeleteProfile(p) ==
    /\ p \in sProfiles
    /\ ProfileCascade(p)
    /\ event' = Did("", "")
    /\ UNCHANGED <<sLocations, sUsers, location, loading, savingNotes, locations,
                   searchQuery, countyFilter, pRatings, pLoading>>
    /\ UNCHANGED <<variant, sReviews, sVotes, nextId, net, pageVars, form, cardVars,
                   detailed, session, route, notes, visited, progVars, hist>>

\* DELETE FROM auth.users WHERE id = ...: profiles.id, reviews.user_id and
\* review_helpfulness.user_id REFERENCES auth.users(id) ON DELETE CASCADE.
DeleteAuthUser(u) ==
    LET kept == {r \in sReviews : r.user_id # u}
    IN  /\ u \in sUsers
        /\ sUsers' = sUsers \ {u}
        /\ ProfileCascade(u)
        /\ sReviews' = kept
        /\ sVotes' = VotesCascade({v \in sVotes : v.user_id # u}, kept)
        /\ event' = Did("", "")
        /\ UNCHANGED <<sLocations, location, loading, savingNotes, locations,
                       searchQuery, countyFilter, pRatings, pLoading>>
        /\ UNCHANGED <<variant, nextId, net, pageVars, form, cardVars, detailed, session,
                       route, notes, visited, progVars, hist>>

---------------------------------------------------------------------------
\* The store executes a request.
InitialIds == {1, 2, 3, 4}
FirstFreeId == Cardinality(InitialIds) + 1

Executed(m) ==
    LET same == [error |-> FALSE, code |-> "", data |-> {}, reviews |-> sReviews,
                 favorites |-> sFavorites, votes |-> sVotes, nextId |-> nextId]
    IN  CASE m.kind = "reviews.insert" ->
                LET r == ForeignKey(ReviewsInsert(sReviews, m.uid, m.arg, nextId), sReviews,
                                    /\ m.arg.user_id \in sUsers
                                    /\ m.arg.location_id \in LocationIds(sLocations))
                IN  [same EXCEPT !.error = r.error, !.code = r.code, !.reviews = r.table,
                                 !.nextId = IF r.error THEN nextId ELSE nextId + 1]
          [] m.kind = "reviews.update" ->
                LET r == ReviewsUpdate(sReviews, m.uid, m.arg.id, m.arg.patch)
                IN  [same EXCEPT !.error = r.error, !.code = r.code, !.reviews = r.table]
          [] m.kind = "reviews.delete" ->
                LET t == ReviewsDelete(sReviews, m.uid, m.arg.id)
                IN  [same EXCEPT !.reviews = t, !.votes = VotesCascade(sVotes, t)]
          [] m.kind = "favorites.insert" ->
                LET r == ForeignKey(FavoritesInsert(sFavorites, m.uid, m.arg, nextId),
                                    sFavorites,
                                    /\ m.arg.user_id \in sProfiles
                                    /\ m.arg.location_id \in LocationIds(sLocations))
                IN  [same EXCEPT !.error = r.error, !.code = r.code,
                                 !.favorites = r.table,
                                 !.data = IF m.arg.returning /\ ~r.error THEN r.data ELSE {},
                                 !.nextId = IF r.error THEN nextId ELSE nextId + 1]
          [] m.kind = "favorites.delete" ->
                [same EXCEPT !.favorites = FavoritesDelete(sFavorites, m.uid, m.arg)]
          [] m.kind = "favorites.update" ->
                [same EXCEPT !.favorites =
                                 FavoritesUpdate(sFavorites, m.uid, m.arg.id, m.arg.patch)]
          [] m.kind = "favorites.select" ->
                LET r == MaybeSingle({FavoriteData(x) :
                                        x \in {y \in sFavorites :
                                                 /\ OwnedBy(m.uid, y.user_id)
                                                 /\ y.user_id = m.arg.user_id
                                                 /\ y.location_id = m.arg.location_id}})
                IN  [same EXCEPT !.error = r.error, !.code = r.code, !.data = r.data]
          [] m.kind = "favorites.list" ->
                [same EXCEPT !.data = {[location_id |-> x.location_id] :
                                         x \in {y \in sFavorites :
                                                  /\ OwnedBy(m.uid, y.user_id)
                                                  /\ y.user_id = m.arg.user_id}}]
          [] m.kind = "votes.insert" ->
                LET r == ForeignKey(VotesInsert(sVotes, sReviews, m.uid, m.arg), sVotes,
                                    m.arg.user_id \in sUsers)
                IN  [same EXCEPT !.error = r.error, !.code = r.code, !.votes = r.table]
          [] m.kind = "votes.delete" ->
                [same EXCEPT !.votes = VotesDelete(sVotes, m.uid, m.arg)]
          [] m.kind = "reviews.select" ->
                [same EXCEPT !.data = {ReviewData(r) :
                                         r \in {x \in sReviews :
                                                  x.location_id = m.arg.location_id}}]
          [] m.kind = "userReview.select" ->
                LET r == MaybeSingle({UserReviewData(x) :
                                        x \in {y \in sReviews :
                                                 /\ y.user_id = m.arg.user_id
                                                 /\ y.location_id = m.arg.location_id}})
                IN  [same EXCEPT !.error = r.error, !.code = r.code, !.data = r.data]
          [] m.kind = "location.select" ->
                LET r == Single({l \in sLocations : l.id = m.arg.id})
                IN  [same EXCEPT !.error = r.error, !.code = r.code, !.data = r.data]
          [] m.kind = "locations.list" ->
                [same EXCEPT !.data = Listed(OrderByCity(sLocations))]
          [] m.kind = "ratings.list" ->
                [same EXCEPT !.data = LocationRatings(sReviews)]
          [] m.kind = "helpfulness.select" ->
                [same EXCEPT !.data = {[review_id |-> v.review_id, user_id |-> v.user_id] :
                                         v \in {x \in sVotes : x.review_id \in m.arg.ids}}]
          [] OTHER -> same

Serve(i) ==
    LET m == net[i]
        out == Executed(m)
    IN  /\ i \in DOMAIN net /\ m.stage = "req"
        /\ out.nextId <= FirstFreeId + MaxIds
        /\ sReviews' = out.reviews
        /\ sFavorites' = out.favorites
        /\ sVotes' = out.votes
        /\ nextId' = out.nextId
        /\ net' = Put(Remove(net, i), [m EXCEPT !.stage = "resp", !.error = out.error,
                                                    !.code = out.code, !.data = out.data])
        /\ event' = Did("", "")
        /\ UNCHANGED <<variant, sideVars, pageVars, form, cardVars, detailed, session>>

\* The call fails on the way (network, backend down): nothing is written.
Fail(i) ==
    LET m == net[i]
    IN  /\ i \in DOMAIN net /\ m.stage = "req"
        /\ net' = Put(Remove(net, i), [m EXCEPT !.stage = "resp", !.error = TRUE,
                                                    !.code = "network"])
        /\ event' = Did("", "")
        /\ UNCHANGED <<variant, sideVars, storeVars, pageVars, form, cardVars, detailed, session>>

---------------------------------------------------------------------------
\* The directory of the model.
Erie == <<"E", "r", "i", "e">>
ErieLower == <<"e", "r", "i", "e">>
ErieCounty == <<"E", "r", "i", "e", " ", "C", "o", "u", "n", "t", "y">>
ErieCountyPadded == <<"E", "r", "i", "e", " ", "C", "o", "u", "n", "t", "y", " ">>
Kings == <<"K", "i", "n", "g", "s">>

HomeLocation ==
    [id |-> LocId, city |-> <<"B", "u", "f">>, county |-> ErieCounty,
     organizations |-> [name |-> <<"H", "u", "b">>, services |-> Null]]
ArtsLocation ==
    [id |-> "L2", city |-> <<"A", "m", "h">>, county |-> ErieCountyPadded,
     organizations |-> [name |-> <<"A", "r", "c">>,
                        services |-> Some(<< <<"A", "r", "t">> >>)]]
KingsLocation ==
    [id |-> "L3", city |-> <<"N", "Y", "C">>, county |-> Kings,
     organizations |-> [name |-> <<"K", "i", "t">>, services |-> Some(<<>>)]]
PlainLocation ==
    [id |-> "L4", city |-> <<"B", "u", "f">>, county |-> ErieLower,
     organizations |-> [name |-> <<"Z", "e", "n">>,
                        services |-> Some(<< <<"S", "p", "a">>, <<"A", "r", "t">> >>)]]

\* The directory holds the location and both caregivers; the location page,
\* where mounted, has loaded the location; the Programs page, where mounted,
\* lists it unfiltered.
DirectoryAtRest ==
    /\ sLocations = {HomeLocation}
    /\ sProfiles = {Viewer, OtherUser}
    /\ sUsers = {Viewer, OtherUser}
    /\ location = Some(HomeLocation)
    /\ loading = FALSE
    /\ savingNotes = FALSE
    /\ locations = <<HomeLocation>>
    /\ searchQuery = <<>>
    /\ countyFilter = AllCounties
    /\ pRatings = {}
    /\ pLoading = FALSE

---------------------------------------------------------------------------
\* The page of a signed-in caregiver who has favorited the location: the
\* session lookup and fetchFavorite have returned; the fetchReviews of the
\* first render (user still null in its closure) and the fetchUserReview of
\* the [user, id] effect are in flight.
OtherRow ==
    [id |-> 1, user_id |-> OtherUser, location_id |-> LocId, rating |-> 3,
     title |-> Word, review_text |-> Word, program_ratings |-> EmptyJson]
ViewerVote == [id |-> 1, review_id |-> 1, user_id |-> Viewer]
FavoriteRow ==
    [id |-> 2, user_id |-> Viewer, location_id |-> LocId, notes |-> Null,
     visited |-> FALSE, visit_date |-> Null]
OwnRow(text) ==
    [id |-> 3, user_id |-> Viewer, location_id |-> LocId, rating |-> 4,
     title |-> Word, review_text |-> text,
     program_ratings |-> [k \in ProgramKeys |-> 2]]

\* No Programs page is mounted.
ProgramsUnmounted ==
    /\ pUser = Null
    /\ pFavorites = {}
    /\ cardUser = Null
    /\ isTogglingFavorite = FALSE

\* History of the favorite toggles of the viewer on the location: how many
\* were started and have completed, whether the store held the favorite when
\* the first was started, whether every one of them so far was started with
\* no other toggle in flight and a view that agreed with the store (clean),
\* and whether every one completed so far did so without error (ok).
NoToggles == [started |-> 0, done |-> 0, orig |-> FALSE, clean |-> TRUE, ok |-> TRUE]

InitialReviewTables ==
    { {}, {OwnRow(Word)}, {OwnRow(OverLimit)} }

InitPage ==
    /\ variant \in ReviewFormVariants
    /\ sReviews \in InitialReviewTables
    /\ sFavorites = {FavoriteRow}
    /\ sVotes = {}
    /\ nextId = FirstFreeId
    /\ session = Some(Viewer)
    /\ user = Some(Viewer)
    /\ favorite = Some(FavoriteData(FavoriteRow))
    /\ userReview = Null
    /\ reviews = {}
    /\ helpfulness = {}
    /\ averageRating = Null
    /\ reviewCount = 0
    /\ form = Some(InitialForm("new", Null))
    /\ voting = {}
    /\ deleting = {}
    /\ detailed = InitialDetailed
    /\ net = PutAll(<<>>, FetchReviews(Null) \o FetchUserReview(Some(Viewer)))
    /\ route = "location"
    /\ notes = Blank
    /\ visited = FALSE
    /\ ProgramsUnmounted
    /\ hist = NoToggles
    /\ DirectoryAtRest
    /\ event = Did("mount", "")

\* A harness that mounts a DetailedReviewForm alone.
InitDetailed ==
    /\ variant \in DetailedVariants
    /\ sReviews = {}
    /\ sFavorites = {}
    /\ sVotes = {}
    /\ nextId = FirstFreeId
    /\ session = Some(Viewer)
    /\ user = Some(Viewer)
    /\ favorite = Null
    /\ userReview = Null
    /\ reviews = {}
    /\ helpfulness = {}
    /\ averageRating = Null
    /\ reviewCount = 0
    /\ form = Null
    /\ voting = {}
    /\ deleting = {}
    /\ detailed = InitialDetailed
    /\ net = <<>>
    /\ route = "harness"
    /\ notes = Blank
    /\ visited = FALSE
    /\ ProgramsUnmounted
    /\ hist = NoToggles
    /\ DirectoryAtRest
    /\ event = Did("mount", "")

Init == InitPage \/ InitDetailed

\* The location page of a viewer, signed in or not, whose loads have returned
\* except fetchFavorite (signed in); the store holds the favorite or not.
InitFavPage ==
    /\ variant = "ReviewForm"
    /\ sReviews = {}
    /\ sFavorites \in {{}, {FavoriteRow}}
    /\ sVotes = {}
    /\ nextId = FirstFreeId
    /\ session \in {Null, Some(Viewer)}
    /\ user = session
    /\ favorite = Null
    /\ userReview = Null
    /\ reviews = {}
    /\ helpfulness = {}
    /\ averageRating = Null
    /\ reviewCount = 0
    /\ form = Null
    /\ voting = {}
    /\ deleting = {}
    /\ detailed = InitialDetailed
    /\ net = PutAll(<<>>, FetchFavorite(user))
    /\ route = "location"
    /\ notes = Blank
    /\ visited = FALSE
    /\ ProgramsUnmounted
    /\ hist = NoToggles
    /\ DirectoryAtRest
    /\ event = Did("mount", "")

\* The Programs page of a viewer, signed in or not, with the card of the
\* location; fetchFavorites (signed in) is in flight.
InitFavPrograms ==
    /\ variant = "ReviewForm"
    /\ sReviews = {}
    /\ sFavorites \in {{}, {FavoriteRow}}
    /\ sVotes = {}
    /\ nextId = FirstFreeId
    /\ session \in {Null, Some(Viewer)}
    /\ user = Null
    /\ favorite = Null
    /\ userReview = Null
    /\ reviews = {}
    /\ helpfulness = {}
    /\ averageRating = Null
    /\ reviewCount = 0
    /\ form = Null
    /\ voting = {}
    /\ deleting = {}
    /\ detailed = InitialDetailed
    /\ pUser = session
    /\ cardUser = session
    /\ pFavorites = {}
    /\ isTogglingFavorite = FALSE
    /\ net = PutAll(<<>>, FetchFavorites(pUser))
    /\ route = "programs"
    /\ notes = Blank
    /\ visited = FALSE
    /\ hist = NoToggles
    /\ DirectoryAtRest
    /\ event = Did("mount", "")

InitFav == InitFavPage \/ InitFavPrograms

\* The location page of a signed-in viewer who has favorited the location,
\* which another caregiver has reviewed; the viewer has voted on that review
\* or not.  The fetchReviews of the first render is in flight.
InitVote ==
    /\ variant = "ReviewForm"
    /\ sReviews = {OtherRow}
    /\ sFavorites = {FavoriteRow}
    /\ sVotes \in {{}, {ViewerVote}}
    /\ nextId = FirstFreeId
    /\ session = Some(Viewer)
    /\ user = Some(Viewer)
    /\ favorite = Some(FavoriteData(FavoriteRow))
    /\ userReview = Null
    /\ reviews = {}
    /\ helpfulness = {}
    /\ averageRating = Null
    /\ reviewCount = 0
    /\ form = Some(InitialForm("new", Null))
    /\ voting = {}
    /\ deleting = {}
    /\ detailed = InitialDetailed
    /\ net = PutAll(<<>>, FetchReviews(Null))
    /\ route = "location"
    /\ notes = Blank
    /\ visited = FALSE
    /\ ProgramsUnmounted
    /\ hist = NoToggles
    /\ DirectoryAtRest
    /\ event = Did("mount", "")

NextVote ==
    \/ \E r \in reviews : HandleHelpfulVote(r)
    \/ \E i \in DOMAIN net : VoteReturned(i)
    \/ \E i \in DOMAIN net : ReviewsReturned(i)
    \/ \E i \in DOMAIN net : ProfilesReturned(i)
    \/ \E i \in DOMAIN net : HelpfulnessReturned(i)
    \/ \E i \in DOMAIN net : Serve(i)
    \/ \E i \in InFlight(VoteKinds) : Fail(i)

SpecVote == InitVote /\ [][NextVote]_vars


NextFav ==
    \/ HandleToggleFavorite
    \/ \E i \in DOMAIN net : ToggleReturned(i)
    \/ \E i \in DOMAIN net : FavoriteReturned(i)
    \/ HandleFavoriteToggle
    \/ \E i \in DOMAIN net : CardToggleReturned(i)
    \/ \E i \in DOMAIN net : FavoritesListReturned(i)
    \/ \E i \in DOMAIN net : Serve(i)
    \/ \E i \in InFlight(FavoriteKinds) : Fail(i)

SpecFav == InitFav /\ [][NextFav]_vars

StarInputs == {5}
TitleInputs == {Padded}
TextInputs == {Spaces, Padded}
ProgramInputs == {<<"dignity", 4>>}
TypeInputs == {"general"}

Next ==
    \/ \E s \in StarInputs : SetRating(s)
    \/ \E t \in TitleInputs : SetTitle(t)
    \/ \E t \in TextInputs : SetReviewText(t)
    \/ \E p \in ProgramInputs : SetProgramRating(p[1], p[2])
    \/ HandleSubmit
    \/ \E i \in DOMAIN net : SubmitReturned(i)
    \/ \E r \in reviews : HandleDelete(r)
    \/ \E i \in DOMAIN net : DeleteReturned(i)
    \/ \E i \in DOMAIN net : ReviewsReturned(i)
    \/ \E i \in DOMAIN net : ProfilesReturned(i)
    \/ \E i \in DOMAIN net : HelpfulnessReturned(i)
    \/ \E i \in DOMAIN net : UserReviewReturned(i)
    \/ \E star \in StarInputs : SetOverallRating(star)
    \/ \E t \in TypeInputs : SetSelectedType(t)
    \/ \E p \in ProgramInputs : SetQualityScore(p[1], p[2])
    \/ \E t \in TypeInputs : ToggleReviewType(t)
    \/ \E star \in StarInputs : SetCategoryRating("staff", star)
    \/ \E t \in TextInputs : SetDetailedText(t)
    \/ ToggleAction("Other")
    \/ ToggleTag("Safety")
    \/ SetVisibility("private")
    \/ CancelDetailed
    \/ SubmitDetailed
    \/ DetailedSubmitted
    \/ \E i \in DOMAIN net : Serve(i)
    \/ \E i \in InFlight(WriteKinds) : Fail(i)

Spec == Init /\ [][Next]_vars

\* The location page as it opens for a signed-in viewer who has favorited the
\* location: the store holds a review of another caregiver, the viewer's own
\* review or not, the viewer's vote or not; fetchReviews (user still null in
\* its closure) and fetchUserReview are in flight, and the viewer has filled
\* the review form.
FilledForm ==
    [InitialForm("new", Null) EXCEPT !.rating = 5, !.title = Padded, !.reviewText = Padded]

InitRacePage ==
    /\ variant = "ReviewForm"
    /\ sReviews \in {{OtherRow}, {OtherRow, OwnRow(Word)}}
    /\ sFavorites = {FavoriteRow}
    /\ sVotes \in {{}, {ViewerVote}}
    /\ nextId = FirstFreeId
    /\ session = Some(Viewer)
    /\ user = Some(Viewer)
    /\ favorite = Some(FavoriteData(FavoriteRow))
    /\ userReview = Null
    /\ reviews = {}
    /\ helpfulness = {}
    /\ averageRating = Null
    /\ reviewCount = 0
    /\ form = Some(FilledForm)
    /\ voting = {}
    /\ deleting = {}
    /\ detailed = InitialDetailed
    /\ net = PutAll(<<>>, FetchReviews(Null) \o FetchUserReview(Some(Viewer)))
    /\ route = "location"
    /\ notes = Blank
    /\ visited = FALSE
    /\ ProgramsUnmounted
    /\ hist = NoToggles
    /\ DirectoryAtRest
    /\ event = Did("mount", "")

InitRace == InitRacePage \/ InitFav

\* Every handler that writes a favorite, a review or a vote, with the loads
\* they wait for.
NextRace ==
    \/ HandleSubmit
    \/ \E i \in DOMAIN net : SubmitReturned(i)
    \/ \E i \in DOMAIN net : UserReviewReturned(i)
    \/ \E i \in DOMAIN net : ReviewsReturned(i)
    \/ \E i \in DOMAIN net : ProfilesReturned(i)
    \/ \E i \in DOMAIN net : HelpfulnessReturned(i)
    \/ \E r \in reviews : HandleHelpfulVote(r)
    \/ \E i \in DOMAIN net : VoteReturned(i)
    \/ HandleToggleFavorite
    \/ \E i \in DOMAIN net : ToggleReturned(i)
    \/ \E i \in DOMAIN net : FavoriteReturned(i)
    \/ HandleFavoriteToggle
    \/ \E i \in DOMAIN net : CardToggleReturned(i)
    \/ \E i \in DOMAIN net : FavoritesListReturned(i)
    \/ \E i \in DOMAIN net : Serve(i)
    \/ \E i \in InFlight(SubmitKinds \cup FavoriteKinds \cup VoteKinds) : Fail(i)

SpecRace == InitRace /\ [][NextRace]_vars

\* The Programs page as it opens for a visitor: fetchLocations and
\* fetchRatings are in flight.
InitPrograms ==
    /\ variant = "ReviewForm"
    /\ sReviews \in {{}, {OtherRow}}
    /\ sFavorites = {}
    /\ sVotes = {}
    /\ nextId = FirstFreeId
    /\ session = Null
    /\ user = Null
    /\ favorite = Null
    /\ userReview = Null
    /\ reviews = {}
    /\ helpfulness = {}
    /\ averageRating = Null
    /\ reviewCount = 0
    /\ form = Null
    /\ voting = {}
    /\ deleting = {}
    /\ detailed = InitialDetailed
    /\ ProgramsUnmounted
    /\ net = PutAll(<<>>, FetchLocations \o FetchRatings)
    /\ route = "programs"
    /\ notes = Blank
    /\ visited = FALSE
    /\ hist = NoToggles
    /\ sLocations \in SUBSET {HomeLocation, ArtsLocation, KingsLocation, PlainLocation}
    /\ sProfiles = {Viewer, OtherUser}
    /\ sUsers = {Viewer, OtherUser}
    /\ location = Null
    /\ loading = TRUE
    /\ savingNotes = FALSE
    /\ locations = <<>>
    /\ searchQuery = <<>>
    /\ countyFilter = AllCounties
    /\ pRatings = {}
    /\ pLoading = TRUE
    /\ event = Did("mount", "")

QueryInputs == {<<>>, <<"e", "r">>, <<"A", "R">>, <<"x">>}
CountyInputs == {AllCounties, Erie, Kings}

NextPrograms ==
    \/ \E q \in QueryInputs : SetSearchQuery(q)
    \/ \E c \in CountyInputs : SetCountyFilter(c)
    \/ \E i \in DOMAIN net : LocationsReturned(i)
    \/ \E i \in DOMAIN net : RatingsReturned(i)
    \/ \E i \in DOMAIN net : Serve(i)

SpecPrograms == InitPrograms /\ [][NextPrograms]_vars

\* A visitor opens the location page (fetchReviews in flight) or the Programs
\* page (fetchLocations and fetchRatings in flight); up to four caregivers
\* have reviewed the location, each with a rating of 1 to 5.
Reviewers == <<Viewer, OtherUser, "u3", "u4">>
RatedRow(k, rating) ==
    [id |-> k, user_id |-> Reviewers[k], location_id |-> LocId, rating |-> rating,
     title |-> Word, review_text |-> Word, program_ratings |-> EmptyJson]

InitAgg ==
    /\ variant = "ReviewForm"
    /\ \E rated \in [DOMAIN Reviewers -> 0..MaxRating] :
           sReviews = {RatedRow(k, rated[k]) : k \in {j \in DOMAIN Reviewers : rated[j] > 0}}
    /\ sFavorites = {}
    /\ sVotes = {}
    /\ nextId = FirstFreeId
    /\ session = Null
    /\ user = Null
    /\ favorite = Null
    /\ userReview = Null
    /\ reviews = {}
    /\ helpfulness = {}
    /\ averageRating = Null
    /\ reviewCount = 0
    /\ form = Null
    /\ voting = {}
    /\ deleting = {}
    /\ detailed = InitialDetailed
    /\ ProgramsUnmounted
    /\ route \in {"location", "programs"}
    /\ net = IF route = "location" THEN PutAll(<<>>, FetchReviews(Null))
             ELSE PutAll(<<>>, FetchLocations \o FetchRatings)
    /\ notes = Blank
    /\ visited = FALSE
    /\ hist = NoToggles
    /\ sLocations = {HomeLocation}
    /\ sProfiles = {Reviewers[k] : k \in DOMAIN Reviewers}
    /\ sUsers = {Reviewers[k] : k \in DOMAIN Reviewers}
    /\ location = IF route = "location" THEN Some(HomeLocation) ELSE Null
    /\ loading = (route # "location")
    /\ savingNotes = FALSE
    /\ locations = <<>>
    /\ searchQuery = <<>>
    /\ countyFilter = AllCounties
    /\ pRatings = {}
    /\ pLoading = (route = "programs")
    /\ event = Did("mount", "")

NextAgg ==
    \/ \E i \in DOMAIN net : ReviewsReturned(i)
    \/ \E i \in DOMAIN net : ProfilesReturned(i)
    \/ \E i \in DOMAIN net : LocationsReturned(i)
    \/ \E i \in DOMAIN net : RatingsReturned(i)
    \/ \E i \in DOMAIN net : Serve(i)

SpecAgg == InitAgg /\ [][NextAgg]_vars

\* The location page of a signed-in viewer who has favorited the location,
\* visited or not; fetchFavorite is in flight.
VisitedRow ==
    [id |-> 2, user_id |-> Viewer, location_id |-> LocId, notes |-> Some(Word),
     visited |-> TRUE, visit_date |-> Some("earlier")]

InitNotes ==
    /\ variant = "ReviewForm"
    /\ sReviews = {}
    /\ sFavorites \in {{FavoriteRow}, {VisitedRow}}
    /\ sVotes = {}
    /\ nextId = FirstFreeId
    /\ session = Some(Viewer)
    /\ user = session
    /\ favorite = Null
    /\ userReview = Null
    /\ reviews = {}
    /\ helpfulness = {}
    /\ averageRating = Null
    /\ reviewCount = 0
    /\ form = Null
    /\ voting = {}
    /\ deleting = {}
    /\ detailed = InitialDetailed
    /\ net = PutAll(<<>>, FetchFavorite(user))
    /\ route = "location"
    /\ notes = Blank
    /\ visited = FALSE
    /\ ProgramsUnmounted
    /\ hist = NoToggles
    /\ DirectoryAtRest
    /\ event = Did("mount", "")

NoteInputs == {Blank, Word}

NextNotes ==
    \/ \E n \in NoteInputs : SetNotes(n)
    \/ \E b \in BOOLEAN : SetVisited(b)
    \/ HandleSaveNotes
    \/ \E i \in DOMAIN net : SaveNotesReturned(i)
    \/ \E i \in DOMAIN net : FavoriteReturned(i)
    \/ HandleToggleFavorite
    \/ \E i \in DOMAIN net : ToggleReturned(i)
    \/ \E i \in DOMAIN net : Serve(i)
    \/ \E i \in InFlight({"favorites.update"}) : Fail(i)

SpecNotes == InitNotes /\ [][NextNotes]_vars

\* A visitor opens the page of the location, which the directory holds or
\* not; fetchLocation and fetchReviews are in flight.
InitLocation ==
    /\ variant = "ReviewForm"
    /\ sLocations \in SUBSET {HomeLocation, ArtsLocation}
    /\ \E rated \in [DOMAIN Reviewers -> {0, 3, 4}] :
           sReviews = IF HomeLocation \in sLocations
                      THEN {RatedRow(k, rated[k]) :
                              k \in {j \in DOMAIN Reviewers : rated[j] > 0}}
                      ELSE {}
    /\ sFavorites = {}
    /\ sVotes = {}
    /\ nextId = FirstFreeId
    /\ session = Null
    /\ user = Null
    /\ favorite = Null
    /\ userReview = Null
    /\ reviews = {}
    /\ helpfulness = {}
    /\ averageRating = Null
    /\ reviewCount = 0
    /\ form = Null
    /\ voting = {}
    /\ deleting = {}
    /\ detailed = InitialDetailed
    /\ ProgramsUnmounted
    /\ route = "location"
    /\ net = PutAll(<<>>, FetchLocation \o FetchReviews(Null))
    /\ notes = Blank
    /\ visited = FALSE
    /\ hist = NoToggles
    /\ sProfiles = {Reviewers[k] : k \in DOMAIN Reviewers}
    /\ sUsers = {Reviewers[k] : k \in DOMAIN Reviewers}
    /\ location = Null
    /\ loading = TRUE
    /\ savingNotes = FALSE
    /\ locations = <<>>
    /\ searchQuery = <<>>
    /\ countyFilter = AllCounties
    /\ pRatings = {}
    /\ pLoading = FALSE
    /\ event = Did("mount", "")

NextLocation ==
    \/ \E i \in DOMAIN net : LocationReturned(i)
    \/ \E i \in DOMAIN net : ReviewsReturned(i)
    \/ \E i \in DOMAIN net : ProfilesReturned(i)
    \/ \E l \in sLocations : DeleteLocation(l)
    \/ \E i \in DOMAIN net : Serve(i)
    \/ \E i \in InFlight({"location.select"}) : Fail(i)

SpecLocation == InitLocation /\ [][NextLocation]_vars

\* The location page of a signed-in viewer who has favorited and reviewed the
\* location, which another caregiver has reviewed too; the edit form is
\* mounted and the fetchReviews of the first render is in flight.
InitSelfVote ==
    /\ variant = "ReviewForm"
    /\ sReviews = {OtherRow, OwnRow(Word)}
    /\ sFavorites = {FavoriteRow}
    /\ sVotes \in {{}, {ViewerVote}}
    /\ nextId = FirstFreeId
    /\ session = Some(Viewer)
    /\ user = Some(Viewer)
    /\ favorite = Some(FavoriteData(FavoriteRow))
    /\ userReview = Some(UserReviewData(OwnRow(Word)))
    /\ reviews = {}
    /\ helpfulness = {}
    /\ averageRating = Null
    /\ reviewCount = 0
    /\ form = Some(InitialForm("edit", userReview))
    /\ voting = {}
    /\ deleting = {}
    /\ detailed = InitialDetailed
    /\ net = PutAll(<<>>, FetchReviews(Null))
    /\ route = "location"
    /\ notes = Blank
    /\ visited = FALSE
    /\ ProgramsUnmounted
    /\ hist = NoToggles
    /\ DirectoryAtRest
    /\ event = Did("mount", "")

SpecSelfVote == InitSelfVote /\ [][NextVote]_vars

\* The loaded location page of a signed-in viewer who has favorited and
\* reviewed the location: the notes panel, the edit form and the card of the
\* viewer's review are mounted and nothing is in flight.
InitFlagsPage ==
    /\ variant = "ReviewForm"
    /\ sReviews = {OwnRow(Word)}
    /\ sFavorites = {FavoriteRow}
    /\ sVotes = {}
    /\ nextId = FirstFreeId
    /\ session = Some(Viewer)
    /\ user = Some(Viewer)
    /\ favorite = Some(FavoriteData(FavoriteRow))
    /\ userReview = Some(UserReviewData(OwnRow(Word)))
    /\ reviews = {ReviewData(OwnRow(Word))}
    /\ helpfulness = {}
    /\ averageRating = Some(RoundedAverage(reviews))
    /\ reviewCount = 1
    /\ form = Some(InitialForm("edit", userReview))
    /\ voting = {}
    /\ deleting = {}
    /\ detailed = InitialDetailed
    /\ net = <<>>
    /\ route = "location"
    /\ notes = Blank
    /\ visited = FALSE
    /\ ProgramsUnmounted
    /\ hist = NoToggles
    /\ DirectoryAtRest
    /\ event = Did("mount", "")

InitFlags == InitFlagsPage \/ InitFavPrograms

\* The writes of the five controls that hold an in-flight flag.
FlagKinds == SubmitKinds \cup VoteKinds \cup FavoriteKinds
                 \cup {"reviews.delete", "favorites.update"}

NextFlags ==
    \/ HandleSubmit
    \/ \E i \in DOMAIN net : SubmitReturned(i)
    \/ \E r \in reviews : HandleHelpfulVote(r)
    \/ \E i \in DOMAIN net : VoteReturned(i)
    \/ \E r \in reviews : HandleDelete(r)
    \/ \E i \in DOMAIN net : DeleteReturned(i)
    \/ HandleSaveNotes
    \/ \E i \in DOMAIN net : SaveNotesReturned(i)
    \/ HandleFavoriteToggle
    \/ \E i \in DOMAIN net : CardToggleReturned(i)
    \/ \E i \in DOMAIN net : FavoritesListReturned(i)
    \/ \E i \in DOMAIN net : UserReviewReturned(i)
    \/ \E i \in DOMAIN net : ReviewsReturned(i)
    \/ \E i \in DOMAIN net : ProfilesReturned(i)
    \/ \E i \in DOMAIN net : HelpfulnessReturned(i)
    \/ \E i \in DOMAIN net : Serve(i)
    \/ \E i \in InFlight(FlagKinds) : Fail(i)

\* Every request is answered or fails.
Respond(kind) ==
    \E i \in InFlight({kind}) : Serve(i) \/ (kind \in FlagKinds /\ Fail(i))

Range(seq) == {seq[k] : k \in DOMAIN seq}

\* The code after an await runs once its call has returned.  (SubmitReturned
\* waits for room for its two fetches, which is there again and again.)
FairFlags ==
    /\ \A kind \in Range(KindOrder) : WF_vars(Respond(kind))
    /\ SF_vars(\E i \in DOMAIN net : SubmitReturned(i))
    /\ WF_vars(\E i \in DOMAIN net : VoteReturned(i))
    /\ WF_vars(\E i \in DOMAIN net : DeleteReturned(i))
    /\ WF_vars(\E i \in DOMAIN net : SaveNotesReturned(i))
    /\ WF_vars(\E i \in DOMAIN net : CardToggleReturned(i))
    /\ WF_vars(\E i \in DOMAIN net : FavoritesListReturned(i))
    /\ WF_vars(\E i \in DOMAIN net : UserReviewReturned(i))
    /\ WF_vars(\E i \in DOMAIN net : ReviewsReturned(i))
    /\ WF_vars(\E i \in DOMAIN net : ProfilesReturned(i))
    /\ WF_vars(\E i \in DOMAIN net : HelpfulnessReturned(i))

SpecFlags == InitFlags /\ [][NextFlags]_vars /\ FairFlags

\* The loaded location page of a signed-in viewer whose favorite carries
\* notes; the other caregiver has favorited the location or not.  The
\* account changes while the page stays open.
OtherFavorite ==
    [id |-> 4, user_id |-> OtherUser, location_id |-> LocId, notes |-> Null,
     visited |-> FALSE, visit_date |-> Null]

InitAuth ==
    /\ variant = "ReviewForm"
    /\ sReviews = {}
    /\ sFavorites \in {{VisitedRow}, {VisitedRow, OtherFavorite}}
    /\ sVotes = {}
    /\ nextId = FirstFreeId
    /\ session = Some(Viewer)
    /\ user = Some(Viewer)
    /\ favorite = Some(FavoriteData(VisitedRow))
    /\ userReview = Null
    /\ reviews = {}
    /\ helpfulness = {}
    /\ averageRating = Null
    /\ reviewCount = 0
    /\ form = Some(InitialForm("new", Null))
    /\ voting = {}
    /\ deleting = {}
    /\ detailed = InitialDetailed
    /\ net = <<>>
    /\ route = "location"
    /\ notes = Word
    /\ visited = TRUE
    /\ ProgramsUnmounted
    /\ hist = NoToggles
    /\ DirectoryAtRest
    /\ event = Did("mount", "")

Accounts == {Null, Some(Viewer), Some(OtherUser)}

NextAuth ==
    \/ \E s \in Accounts : AuthStateChange(s)
    \/ \E i \in DOMAIN net : FavoriteReturned(i)
    \/ \E i \in DOMAIN net : UserReviewReturned(i)
    \/ HandleSaveNotes
    \/ \E i \in DOMAIN net : SaveNotesReturned(i)
    \/ \E i \in DOMAIN net : Serve(i)

SpecAuth == InitAuth /\ [][NextAuth]_vars

\* The location page of a signed-in viewer at mount: no user yet, the session
\* lookup and the fetchReviews of the first render are in flight.  Both
\* caregivers may have voted on the other caregiver's review.
OtherVote == [id |-> 2, review_id |-> 1, user_id |-> OtherUser]

InitMount ==
    /\ variant = "ReviewForm"
    /\ sReviews \in {{OtherRow}, {OtherRow, OwnRow(Word)}}
    /\ sFavorites \in {{}, {FavoriteRow}}
    /\ sVotes \in SUBSET {ViewerVote, OtherVote}
    /\ nextId = FirstFreeId
    /\ session = Some(Viewer)
    /\ user = Null
    /\ favorite = Null
    /\ userReview = Null
    /\ reviews = {}
    /\ helpfulness = {}
    /\ averageRating = Null
    /\ reviewCount = 0
    /\ form = Null
    /\ voting = {}
    /\ deleting = {}
    /\ detailed = InitialDetailed
    /\ net = PutAll(<<>>, GetSession \o FetchReviews(Null))
    /\ route = "location"
    /\ notes = Blank
    /\ visited = FALSE
    /\ ProgramsUnmounted
    /\ hist = NoToggles
    /\ DirectoryAtRest
    /\ event = Did("mount", "")

NextMount ==
    \/ \E i \in DOMAIN net : SessionReturned(i)
    \/ \E i \in DOMAIN net : FavoriteReturned(i)
    \/ \E i \in DOMAIN net : UserReviewReturned(i)
    \/ \E i \in DOMAIN net : ReviewsReturned(i)
    \/ \E i \in DOMAIN net : ProfilesReturned(i)
    \/ \E i \in DOMAIN net : Serve(i)

SpecMount == InitMount /\ [][NextMount]_vars

\* The page of InitSelfVote with no vote stored yet: the viewer votes and
\* deletes the own review while earlier fetchReviews calls are in flight.
InitOverlap == InitSelfVote /\ sVotes = {}

NextOverlap ==
    \/ \E r \in reviews : HandleHelpfulVote(r)
    \/ \E i \in DOMAIN net : VoteReturned(i)
    \/ \E r \in reviews : HandleDelete(r)
    \/ \E i \in DOMAIN net : DeleteReturned(i)
    \/ \E i \in DOMAIN net : ReviewsReturned(i)
    \/ \E i \in DOMAIN net : ProfilesReturned(i)
    \/ \E i \in DOMAIN net : HelpfulnessReturned(i)
    \/ \E i \in DOMAIN net : Serve(i)

SpecOverlap == InitOverlap /\ [][NextOverlap]_vars

\* Every flagged control with the heart button of the location page, which
\* unmounts and remounts the Reviews section under the calls in flight.
NextControls ==
    \/ NextFlags
    \/ HandleToggleFavorite
    \/ \E i \in DOMAIN net : ToggleReturned(i)

SpecControls == InitFlags /\ [][NextControls]_vars

\* Every control that writes, with the viewer signing out and in on the
\* location page.
NextVisitor ==
    \/ NextControls
    \/ \E s \in {Null, Some(Viewer)} : AuthStateChange(s)
    \/ \E i \in DOMAIN net : FavoriteReturned(i)

SpecVisitor == InitFlags /\ [][NextVisitor]_vars

\* The location page as in InitVote, with the viewer's favorite stored; the
\* owner of the database deletes locations, profiles and accounts while the
\* viewer toggles the favorite and the vote.
NextCascade ==
    \/ \E l \in sLocations : DeleteLocation(l)
    \/ \E p \in sProfiles : DeleteProfile(p)
    \/ \E u \in sUsers : DeleteAuthUser(u)
    \/ HandleToggleFavorite
    \/ \E i \in DOMAIN net : ToggleReturned(i)
    \/ \E r \in reviews : HandleHelpfulVote(r)
    \/ \E i \in DOMAIN net : VoteReturned(i)
    \/ \E i \in DOMAIN net : ReviewsReturned(i)
    \/ \E i \in DOMAIN net : ProfilesReturned(i)
    \/ \E i \in DOMAIN net : HelpfulnessReturned(i)
    \/ \E i \in DOMAIN net : Serve(i)

SpecCascade == InitVote /\ [][NextCascade]_vars

---------------------------------------------------------------------------
\* Properties.

\* The review rows of the store for (userId, locationId) of the form.
PairRows(tbl) == {r \in tbl : r.user_id = Viewer /\ r.location_id = LocId}

\* The values a submit sent.
Submitted(m) == IF m.kind = "reviews.update" THEN m.arg.patch ELSE m.arg

\* Step: the response i of a submit's write runs the success path.
SubmitSucceeds(i) == SubmitReturned(i) /\ ~net[i].error
\* Step: the response i of a submit's write runs the catch block.
SubmitFails(i) == SubmitReturned(i) /\ net[i].error

\* C1 (as stated): whenever a ReviewForm submit ends on its success path, the
\* store holds exactly one review row for (userId, locationId), carrying the
\* submitted rating, trimmed title and trimmed text.
C1_SuccessMeansOneRow ==
    [][\A i \in DOMAIN net :
          SubmitSucceeds(i) =>
              /\ Cardinality(PairRows(sReviews')) = 1
              /\ \A r \in PairRows(sReviews') :
                     /\ r.rating = Submitted(net[i]).rating
                     /\ r.title = Submitted(net[i]).title
                     /\ r.review_text = Submitted(net[i]).review_text]_vars

\* C2: a submit for a pair that already has a review never increases the
\* number of review rows of the location, with or without existingReview; an
\* update that matches the row replaces it in place (same id, sent values).
C2_SubmitKeepsCount ==
    [][\A i \in DOMAIN net :
          (net[i].kind \in SubmitKinds /\ Serve(i) /\ PairRows(sReviews) # {}) =>
              /\ Cardinality(sReviews') <= Cardinality(sReviews)
              /\ (net[i].kind = "reviews.update"
                      /\ \E r \in PairRows(sReviews) : r.id = net[i].arg.id) =>
                     \E r \in sReviews' :
                         /\ r.id = net[i].arg.id
                         /\ r.rating = net[i].arg.patch.rating
                         /\ r.title = net[i].arg.patch.title
                         /\ r.review_text = net[i].arg.patch.review_text]_vars

\* C2 witness: the form without existingReview sent an insert for a pair
\* that has a review, and the store rejected it.
C2_Witness ==
    \E i \in DOMAIN net :
        /\ net[i].kind = "reviews.insert" /\ net[i].stage = "resp"
        /\ net[i].code = "unique"
        /\ PairRows(sReviews) # {}

\* The required-field checks of the claim, on the draft of each variant.
ReviewFormIncomplete ==
    \/ form[1].rating = 0
    \/ Length(Trim(form[1].title)) = 0
    \/ Length(Trim(form[1].reviewText)) = 0
NoReviewType ==
    IF Accordion THEN detailed.selectedType = "" ELSE detailed.selectedTypes = <<>>
DetailedIncomplete ==
    \/ NoReviewType
    \/ (Accordion /\ detailed.overallRating = 0)
    \/ Length(Trim(detailed.reviewText)) = 0

\* Step: a click on the submit button of the mounted form.
SubmitClicked == event'.step = "handleSubmit"

\* C3: in every form variant a submit whose draft fails a required-field check
\* issues no call (no write, no refresh of onReviewSubmitted), does not set
\* submitting and leaves every draft field as it was; it raises a notice.
C3_IncompleteDraftRejected ==
    [][(SubmitClicked /\ (IF DetailedShown THEN DetailedIncomplete
                                           ELSE ReviewFormIncomplete)) =>
          /\ net' = net
          /\ form' = form
          /\ detailed' = detailed
          /\ storeVars' = storeVars
          /\ event'.toast # ""]_vars

\* C3 witness: a draft with a narrative and no review type was submitted and
\* rejected.
C3_Witness ==
    /\ Collapsible
    /\ event = Did("handleSubmit", "Review type required")
    /\ Length(Trim(detailed.reviewText)) > 0
    /\ ~detailed.submitting

\* The narrative of the mounted form's draft.
Narrative == IF DetailedShown THEN detailed.reviewText ELSE form[1].reviewText

\* C4 (as stated): a submit whose narrative is empty after trimming or longer
\* than 2000 characters is rejected before any write.
C4_LengthRejected ==
    [][(SubmitClicked /\ (\/ Length(Trim(Narrative)) = 0
                          \/ Length(Narrative) > MaxLength)) =>
          /\ net' = net
          /\ form' = form
          /\ detailed' = detailed
          /\ event'.toast # ""]_vars

\* C5: when the write of a submit fails, the handler raises the generic
\* failure notice, issues no call of onReviewSubmitted and leaves rating,
\* title, narrative and sub-ratings of the draft as they were.
C5_FailureKeepsDraft ==
    [][\A i \in DOMAIN net :
          SubmitFails(i) =>
              /\ event'.toast = "Error: Failed to submit review."
              /\ net' = Remove(net, i)
              /\ form # Null =>
                     /\ form' # Null
                     /\ form'[1].rating = form[1].rating
                     /\ form'[1].title = form[1].title
                     /\ form'[1].reviewText = form[1].reviewText
                     /\ form'[1].programRatings = form[1].programRatings
                     /\ (net[i].live => ~form'[1].submitting)]_vars

\* C5 witness: the write of a new review failed and the form still holds the
\* draft that was sent, ready to be submitted again.
C5_Witness ==
    /\ event.step = "submitFailed"
    /\ form # Null /\ form[1].slot = "new" /\ ~form[1].submitting
    /\ form[1].rating = 5
    /\ form[1].title = Padded
    /\ form[1].reviewText = Padded
    /\ PairRows(sReviews) = {}

\* C6 (as stated): after a successful submit of a new review every draft
\* field has its initial value and onReviewSubmitted was invoked once.
C6_SuccessClearsDraft ==
    /\ [][\A i \in DOMAIN net :
             (SubmitSucceeds(i) /\ net[i].kind = "reviews.insert" /\ net[i].live) =>
                 /\ form' = Some(InitialForm("new", Null))
                 /\ net' = PutAll(Remove(net, i), OnReviewSubmitted(net[i].ctx.user))]_vars
    /\ [][DetailedSubmitted => detailed' = InitialDetailed]_vars

\* C7 (as stated): every review row a form wrote has its rating and every
\* sub-rating in 1..5.  The rows of the initial store satisfy it, so a row
\* that does not was written by a form.
C7_RatingsInRange ==
    \A r \in sReviews :
        /\ r.rating \in MinRating..MaxRating
        /\ \A k \in DOMAIN r.program_ratings :
               r.program_ratings[k] \in MinRating..MaxRating

\* C9 (as stated): after two favorite toggles of the viewer on the location
\* have completed (here: both without error), however they and the refetch
\* interleave, the store holds the favorite exactly when it held it before
\* the first.
C9_TwoTogglesRestore ==
    (hist.started = 2 /\ hist.done = 2 /\ hist.ok) => (FavoriteStored <=> hist.orig)

\* C9 (amended): two toggles that complete without error, each started while
\* no other toggle of the pair is in flight and while the favorite the handler
\* sees (the page's favorite, the card's isFavorited) agrees with the store,
\* bring the store back to its membership before the first; one such toggle
\* flips it.
C9_TwoCleanTogglesRestore ==
    /\ (hist.started = 2 /\ hist.done = 2 /\ hist.ok /\ hist.clean) =>
           (FavoriteStored <=> hist.orig)
    /\ (hist.started = 1 /\ hist.done = 1 /\ hist.ok /\ hist.clean) =>
           (FavoriteStored <=> ~hist.orig)

\* C9 witness: two such toggles have completed on a favorite that was stored
\* at first: removed, then added again.
C9_Witness ==
    /\ hist.started = 2 /\ hist.done = 2 /\ hist.ok /\ hist.clean /\ hist.orig
    /\ event = Did("toggleSucceeded", "Added to favorites")
    /\ FavoriteStored

\* Does the store hold the viewer's vote on the review?
VoteStored(tbl, reviewId) ==
    \E v \in tbl : v.review_id = reviewId /\ v.user_id = Viewer

\* Step: the store executes the write i of a helpfulness toggle without error
\* (the toggle then completes without error).
VoteWritten(i) ==
    /\ net[i].kind \in VoteKinds /\ net[i].uid = Some(Viewer)
    /\ Serve(i) /\ ~Executed(net[i]).error

\* C10 (as stated): a helpfulness toggle of the signed-in viewer that
\* completes without error flips the store: the vote row exists afterwards
\* exactly when it did not exist before.
C10_VoteFlips ==
    [][\A i \in DOMAIN net :
          VoteWritten(i) =>
              (VoteStored(sVotes', net[i].arg.review_id)
                   <=> ~VoteStored(sVotes, net[i].arg.review_id))]_vars

\* C10 (amended): a toggle that completes without error leaves the vote row
\* existing exactly when the card showed userHasVoted = false at the click:
\* its insert found no row and created one (a duplicate is refused), its
\* delete leaves no row, and so it flips the store whenever userHasVoted
\* agreed with the store.
C10_VoteFollowsView ==
    [][\A i \in DOMAIN net :
          VoteWritten(i) =>
              LET rid == net[i].arg.review_id
              IN  /\ net[i].kind = "votes.insert" =>
                         ~VoteStored(sVotes, rid) /\ VoteStored(sVotes', rid)
                  /\ net[i].kind = "votes.delete" => ~VoteStored(sVotes', rid)
                  /\ Cardinality({v \in sVotes' : v.review_id = rid /\ v.user_id = Viewer})
                         <= 1]_vars

\* C10 witness: a toggle has removed the viewer's vote, and the page still
\* shows the viewer as having voted (the refetch has not arrived).
C10_Witness ==
    /\ event.step = "voteSucceeded"
    /\ ~VoteStored(sVotes, 1)
    /\ UserHasVoted(user, helpfulness, 1)
    /\ voting = {}

\* Each table holds at most one row per key.
KeysUnique ==
    /\ \A a, b \in sFavorites :
           (a.user_id = b.user_id /\ a.location_id = b.location_id) => a = b
    /\ \A a, b \in sReviews :
           (a.user_id = b.user_id /\ a.location_id = b.location_id) => a = b
    /\ \A a, b \in sVotes :
           (a.review_id = b.review_id /\ a.user_id = b.user_id) => a = b

InsertKinds == {"favorites.insert", "reviews.insert", "votes.insert"}

\* The error notice of the handler that issued the insert.
ErrorNotice(kind, src) ==
    IF kind = "reviews.insert" THEN "Error: Failed to submit review."
    ELSE IF kind = "votes.insert" THEN "Error: Failed to record your vote."
    ELSE IF src = ProgramCard THEN "Error: Failed to update favorites. Please try again."
    ELSE "Error: Failed to update favorites."

\* The responses in msgs that report the rejection of a duplicate insert of
\* the kind, issued by src.
Rejections(msgs, kind, src) ==
    {i \in DOMAIN msgs : /\ msgs[i].stage = "resp" /\ msgs[i].code = "unique"
                         /\ msgs[i].kind = kind /\ msgs[i].src = src}

Sources == {Page, Form, ProgramCard} \cup {Card(id) : id \in InitialIds}

\* Is a row with the key of the insert stored?
KeyStored(m) ==
    IF m.kind = "favorites.insert" THEN ~FavoritesUnique(sFavorites, m.arg)
    ELSE IF m.kind = "reviews.insert" THEN ~ReviewsUnique(sReviews, m.arg)
    ELSE ~VotesUnique(sVotes, m.arg)

\* C8: whatever the interleaving of the toggle and submit handlers, each of
\* favorites, reviews and review_helpfulness holds at most one row per key;
\* the store refuses an insert whose key is stored, and the handler that
\* receives the refusal shows its error notice.
C8_KeysStayUnique ==
    /\ []KeysUnique
    /\ [][\A i \in DOMAIN net :
             (net[i].kind \in InsertKinds /\ KeyStored(net[i]) /\ Serve(i)) =>
                 /\ Executed(net[i]).error
                 /\ UNCHANGED storeVars]_vars
    /\ [][\A k \in InsertKinds : \A src \in Sources :
             Cardinality(Rejections(net', k, src)) < Cardinality(Rejections(net, k, src))
                 => event'.toast = ErrorNotice(k, src)]_vars

\* C8 witness: the store has refused a duplicate insert of one handler while
\* a write of another handler is in flight, and the handler of the refused
\* insert has shown its notice.
C8_Witness ==
    /\ KeysUnique
    /\ event.toast = ErrorNotice("votes.insert", Card(1))
    /\ VoteStored(sVotes, 1)
    /\ ~UserHasVoted(user, helpfulness, 1)
    /\ \E i \in DOMAIN net : net[i].kind \in SubmitKinds \cup FavoriteKinds
    /\ \E i \in DOMAIN net : net[i].code = "unique"

---------------------------------------------------------------------------
\* The Programs filter.

\* Does s contain q, letters compared without case?
ContainsCI(s, q) ==
    \E k \in 0..(Len(s) - Len(q)) :
        \A j \in 1..Len(q) : ToLower(s[k + j]) = ToLower(q[j])

\* The text predicate: the organization name, the city, the county or a
\* service label contains q.
TextPredicate(l, q) ==
    \/ ContainsCI(l.organizations.name, q)
    \/ ContainsCI(l.city, q)
    \/ ContainsCI(l.county, q)
    \/ /\ l.organizations.services # Null
       /\ \E k \in DOMAIN l.organizations.services[1] :
              ContainsCI(l.organizations.services[1][k], q)

\* Is out the subsequence of ls, in the order of ls, of the entries at the
\* positions in kept?
IsSubsequenceAt(out, ls, kept) ==
    /\ Len(out) = Cardinality(kept)
    /\ \A k \in kept : out[Cardinality({j \in kept : j <= k})] = ls[k]

\* C11: with the county selector at "All Counties", the list shown for the
\* search text q is the subsequence, in the order of the fetched list, of the
\* locations whose organization name, city, county or a service label contains
\* q without regard to case; for q = "" it is the fetched list itself.
C11_TextFilter ==
    countyFilter = AllCounties =>
        /\ IsSubsequenceAt(FilteredLocations(locations, searchQuery, countyFilter),
                           locations,
                           {k \in DOMAIN locations : TextPredicate(locations[k], searchQuery)})
        /\ searchQuery = <<>> =>
               FilteredLocations(locations, searchQuery, countyFilter) = locations

\* C11 witness: of four fetched locations the search "AR" keeps two, one by
\* the name of its organization and one by a service label only.
C11_Witness ==
    /\ countyFilter = AllCounties /\ searchQuery = <<"A", "R">>
    /\ Len(locations) = 4
    /\ FilteredLocations(locations, searchQuery, countyFilter) = <<ArtsLocation, PlainLocation>>

\* The county as the filter is described to compare it: trimmed, lower-cased,
\* stripped of a trailing "county".
TrimLowerStrip(c) == ReplaceCountySuffix(ToLowerCase(TrimString(c)))

\* C12: with a county selected, the list shown holds the locations that pass
\* the text predicate and whose county equals the selected one after both are
\* trimmed, lower-cased and stripped of a trailing "county".
C12_CountyFilter ==
    countyFilter # AllCounties =>
        IsSubsequenceAt(FilteredLocations(locations, searchQuery, countyFilter),
                        locations,
                        {k \in DOMAIN locations :
                             /\ TextPredicate(locations[k], searchQuery)
                             /\ TrimLowerStrip(locations[k].county)
                                    = TrimLowerStrip(countyFilter)})

\* C13: normalizeCounty is idempotent on every county it is applied to, and
\* "Erie County" and "erie" have the same normal form.
C13_NormalizeIdempotent ==
    /\ \A c \in {locations[k].county : k \in DOMAIN locations} \cup {countyFilter} :
           NormalizeCounty(NormalizeCounty(c)) = NormalizeCounty(c)
    /\ NormalizeCounty(ErieCounty) = NormalizeCounty(ErieLower)

---------------------------------------------------------------------------
\* Rating aggregates.

\* The ratings of the rows, added up.
RECURSIVE Total(_)
Total(rows) ==
    IF rows = {} THEN 0
    ELSE LET r == CHOOSE x \in rows : TRUE IN Total(rows \ {r}) + r.rating

\* Is t (in tenths) the mean of the rows rounded to one decimal place, a half
\* rounded up?  That is: mean - 0.05 < t / 10 <= mean + 0.05.
IsRoundedMean(t, rows) ==
    LET n == Cardinality(rows)
    IN  /\ 2 * n * t <= 20 * Total(rows) + n
        /\ 20 * Total(rows) + n < 2 * n * (t + 1)

\* The review rows of the location in the store.
LocationRows == {r \in sReviews : r.location_id = LocId}

\* C14: the aggregate that fetchReviews computes from the n >= 1 reviews it
\* fetched is count n and the mean of their ratings rounded to one decimal
\* place, a half rounded up; for the ratings 4, 5, 3 it is 4.0 and 3.
C14_AverageRounded ==
    /\ reviews # {} =>
           /\ reviewCount = Cardinality(reviews)
           /\ averageRating # Null
           /\ IsRoundedMean(averageRating[1], reviews)
    /\ {r.rating : r \in reviews} = {3, 4, 5} /\ Cardinality(reviews) = 3 =>
           averageRating = Some(40) /\ reviewCount = 3

\* C14 witness: four reviews rated 3, 3, 3, 4 (mean 3.25, a tie) are held
\* with the average 3.3 and the count 4.
C14_Witness ==
    /\ Cardinality(reviews) = 4
    /\ Total(reviews) = 13
    /\ averageRating = Some(33)
    /\ reviewCount = 4

\* C17: over the same non-empty rows, the reduction of fetchReviews and the
\* location_ratings view give the same average and the same count.
C17_ClientEqualsView ==
    (reviews # {} /\ reviews = {ReviewData(r) : r \in LocationRows}) =>
        /\ Cardinality(LocationRatings(sReviews)) = 1
        /\ \A v \in LocationRatings(sReviews) :
               /\ v.location_id = LocId
               /\ averageRating = Some(v.average_rating)
               /\ reviewCount = v.review_count

\* C17 witness: the page holds the aggregate of reviews rated 1, 2, 2, 2 (mean
\* 1.75), and the view has the row (4 reviews, 1.8).
C17_Witness ==
    /\ Cardinality(reviews) = 4 /\ Total(reviews) = 7
    /\ averageRating = Some(18)
    /\ [location_id |-> LocId, review_count |-> 4, average_rating |-> 18]
           \in LocationRatings(sReviews)

\* C15: whenever nothing is in flight on the location page (so after every
\* successful submit, edit or delete and the fetches it triggered), the page
\* holds the count of the review rows stored for the location and, when
\* there are any, their rounded mean; the location_ratings view has the same
\* aggregate.
C15_AggregateLive ==
    (net = <<>> /\ route = "location") =>
        /\ reviewCount = Cardinality(LocationRows)
        /\ LocationRows # {} =>
               averageRating # Null /\ IsRoundedMean(averageRating[1], LocationRows)
        /\ \A v \in LocationRatings(sReviews) :
               v.location_id = LocId =>
                   /\ v.review_count = Cardinality(LocationRows)
                   /\ IsRoundedMean(v.average_rating, LocationRows)

\* C16: the view has no row for a location without reviews, and the step
\* of fetchReviews that receives an empty review list leaves the page without
\* an average and without a count to display.
C16_NoAggregateWhenEmpty ==
    /\ [](LocationRows = {} => ~\E v \in LocationRatings(sReviews) : v.location_id = LocId)
    /\ [][\A i \in DOMAIN net :
             (/\ net[i].kind = "reviews.select" /\ net[i].stage = "resp"
              /\ ~net[i].error /\ net[i].data = {}
              /\ ReviewsReturned(i))
                 => averageRating' = Null /\ reviewCount' = 0]_vars

---------------------------------------------------------------------------
\* Saving notes.

\* The update requests in flight.
SaveCalls(msgs) == {i \in DOMAIN msgs : msgs[i].kind = "favorites.update"}

\* The row as the update of m leaves it.
Saved(r, m) == [r EXCEPT !.notes = m.arg.patch.notes, !.visited = m.arg.patch.visited,
                         !.visit_date = m.arg.patch.visit_date]

\* C18: a save sends one update carrying notes, visited and visit_date; the
\* store applies it to the viewer's favorite row of that id and to no other
\* row; and every stored favorite has a visit_date exactly when it is visited.
C18_SaveNotesOneUpdate ==
    /\ [](\A f \in sFavorites : (f.visit_date # Null) <=> (f.visited = TRUE))
    /\ [][HandleSaveNotes =>
              /\ Cardinality(SaveCalls(net')) = Cardinality(SaveCalls(net)) + 1
              /\ Len(net') = Len(net) + 1
              /\ \E i \in SaveCalls(net') :
                     /\ net'[i].arg.id = favorite[1].id
                     /\ net'[i].arg.patch.notes = Some(notes)
                     /\ net'[i].arg.patch.visited = visited
                     /\ (net'[i].arg.patch.visit_date # Null) <=> visited]_vars
    /\ [][\A i \in DOMAIN net :
             (net[i].kind = "favorites.update" /\ Serve(i)) =>
                 sFavorites' = {IF r.id = net[i].arg.id /\ r.user_id = Viewer
                                THEN Saved(r, net[i]) ELSE r : r \in sFavorites}]_vars

\* C18 witness: a save has succeeded and the store holds the viewer's row with
\* the notes, the flag and today's date.
C18_Witness ==
    /\ event.step = "notesSaved"
    /\ \E f \in sFavorites :
           /\ f.user_id = Viewer /\ f.notes = Some(Word)
           /\ f.visited = TRUE /\ f.visit_date = Some(Today)

---------------------------------------------------------------------------
\* Cascades.

\* C19: no favorite, review or vote row refers to a location, a profile or a
\* review that is no longer stored.
C19_NoDanglingRows ==
    /\ \A f \in sFavorites :
           f.location_id \in LocationIds(sLocations) /\ f.user_id \in sProfiles
    /\ \A r \in sReviews :
           r.location_id \in LocationIds(sLocations) /\ r.user_id \in sProfiles
    /\ \A v \in sVotes :
           v.user_id \in sProfiles /\ \E r \in sReviews : r.id = v.review_id

---------------------------------------------------------------------------
\* The location that does not exist.

\* C20: when the response to fetchLocation says that no location has the
\* requested id, the page stops loading, shows "Location not found." and
\* raises no notice.
C20_NotFoundWithoutNotice ==
    [][\A i \in DOMAIN net :
          (net[i].kind = "location.select" /\ net[i].code = "norows" /\ LocationReturned(i))
              => NotFoundShown' /\ event'.toast = ""]_vars

---------------------------------------------------------------------------
\* Votes on one's own review.

\* The author of the review of that id, as stored.
IsAuthor(reviewId, userId) == \E r \in sReviews : r.id = reviewId /\ r.user_id = userId

\* C21: the Helpful button sends the insert exactly when the page does not
\* show the viewer's vote, whoever wrote the review, and the store rejects the
\* insert exactly when the vote is already stored, whoever wrote the review.
C21_NoSelfVoteRestriction ==
    /\ [][\A r \in reviews :
             (HandleHelpfulVote(r) /\ user # Null) =>
                 \E i \in DOMAIN net' :
                    /\ net'[i].src = Card(r.id) /\ net'[i].stage = "req"
                    /\ net'[i].arg = [review_id |-> r.id, user_id |-> user[1]]
                    /\ (net'[i].kind = "votes.insert") <=>
                           ~\E h \in helpfulness : h.review_id = r.id /\ h.user_id = user[1]]_vars
    /\ [][\A i \in DOMAIN net :
             (net[i].kind = "votes.insert" /\ Serve(i)) =>
                 /\ Executed(net[i]).error <=> VoteStored(sVotes, net[i].arg.review_id)
                 /\ VoteStored(sVotes', net[i].arg.review_id)]_vars

\* C21 witness: the store holds the viewer's vote on the viewer's own review,
\* written by the Helpful button, and the page shows it.
C21_Witness ==
    /\ \E v \in sVotes : IsAuthor(v.review_id, v.user_id)
    /\ \E r \in reviews :
           IsAuthor(r.id, Viewer) /\ UserHasVoted(user, helpfulness, r.id)

---------------------------------------------------------------------------
\* In-flight flags.

\* The writes of the flagged controls among the calls.
Writes(msgs) == {i \in DOMAIN msgs : msgs[i].kind \in FlagKinds}

Submitting(f) == f # Null /\ f[1].submitting

\* Step: a handler raises its flag.
FlagRaised ==
    \/ ~Submitting(form) /\ Submitting(form')
    \/ voting' \ voting # {}
    \/ deleting' \ deleting # {}
    \/ ~isTogglingFavorite /\ isTogglingFavorite'
    \/ ~savingNotes /\ savingNotes'

\* C22: the code that runs when the write of a flagged control returns lowers
\* the flag, with or without error, and sends no write; a write is sent only
\* by the step that raises a flag, one per step; and every raised flag is
\* lowered eventually.
C22_FlagsLowered ==
    /\ [][\A i \in DOMAIN net :
             /\ (SubmitReturned(i) /\ net[i].live) => ~Submitting(form')
             /\ VoteReturned(i) => net[i].src[2] \notin voting'
             /\ DeleteReturned(i) => net[i].src[2] \notin deleting'
             /\ CardToggleReturned(i) => ~isTogglingFavorite'
             /\ SaveNotesReturned(i) => ~savingNotes'
             /\ (SubmitReturned(i) \/ VoteReturned(i) \/ DeleteReturned(i)
                    \/ CardToggleReturned(i) \/ SaveNotesReturned(i))
                   => Cardinality(Writes(net')) = Cardinality(Writes(net)) - 1]_vars
    /\ [][Cardinality(Writes(net')) > Cardinality(Writes(net)) =>
              FlagRaised /\ Cardinality(Writes(net')) = Cardinality(Writes(net)) + 1]_vars
    /\ Submitting(form) ~> ~Submitting(form)
    /\ (voting # {}) ~> (voting = {})
    /\ (deleting # {}) ~> (deleting = {})
    /\ isTogglingFavorite ~> ~isTogglingFavorite
    /\ savingNotes ~> ~savingNotes

\* C22 witness: a submit has failed, the form holds the draft with its flag
\* lowered, and no write is in flight.
C22_Witness ==
    /\ event.step = "submitFailed"
    /\ form # Null /\ ~form[1].submitting
    /\ Writes(net) = {}

---------------------------------------------------------------------------
\* The notes panel after a change of account.

\* C23: whenever no call is in flight and the notes panel is shown, the
\* favorite, the notes and the visited flag it shows are those of the stored
\* favorite row of the viewer who is signed in.
C23_NotesOfCurrentViewer ==
    (route = "location" /\ net = <<>> /\ SectionShown(user, favorite)) =>
        \E r \in sFavorites :
            /\ r.user_id = user[1] /\ r.location_id = LocId
            /\ r.id = favorite[1].id
            /\ NotesOrEmpty(r.notes) = notes
            /\ r.visited = visited

---------------------------------------------------------------------------
\* Votes shown after the initial loads.

\* C24: once the loads of the mount have all returned, for a signed-in viewer
\* and every review of the list, userHasVoted is true exactly when the store
\* holds the viewer's vote on the review, and getHelpfulCount is the number of
\* stored votes on it.
C24_VotesShownAfterLoad ==
    (route = "location" /\ net = <<>> /\ user # Null) =>
        \A r \in reviews :
            /\ UserHasVoted(user, helpfulness, r.id) <=>
                   \E v \in sVotes : v.review_id = r.id /\ v.user_id = user[1]
            /\ GetHelpfulCount(helpfulness, r.id) =
                   Cardinality({v \in sVotes : v.review_id = r.id})

---------------------------------------------------------------------------
\* Overlapping fetchReviews calls.

\* C25: every write that succeeds is followed by a fetchReviews, so the call
\* issued last has read the store as it is once every call has returned: the
\* page then holds the stored reviews of the location, their count and their
\* rounded mean, and (once a signed-in fetch has run) the stored votes.
C25_LastFetchWins ==
    (route = "location" /\ net = <<>>) =>
        /\ reviews = {ReviewData(r) : r \in LocationRows}
        /\ reviewCount = Cardinality(LocationRows)
        /\ LocationRows # {} => averageRating = Some(RoundedAverage(LocationRows))
        /\ (helpfulness # {} \/ sVotes # {}) =>
               helpfulness = {[review_id |-> v.review_id, user_id |-> v.user_id] :
                                v \in sVotes}

---------------------------------------------------------------------------
\* The viewer's own review as the page holds it.

\* C26: whenever no call is in flight, the page holds a userReview exactly
\* when the store holds a review of the location by the signed-in viewer, and
\* the form it mounts is the edit form in that case and the new-review form
\* otherwise.
C26_UserReviewFollowsStore ==
    (route = "location" /\ net = <<>> /\ user # Null) =>
        LET stored == \E r \in LocationRows : r.user_id = user[1]
        IN  /\ (userReview # Null) <=> stored
            /\ form # Null => (form[1].slot = "edit" <=> stored)

---------------------------------------------------------------------------
\* The visit date across saves.

\* C27: the visit_date of a stored favorite changes only in a step that
\* changes its visited flag: a save that leaves visited as it was stored
\* keeps the stored visit_date.
C27_VisitDateKept ==
    [][\A f \in sFavorites : \A g \in sFavorites' :
          (g.id = f.id /\ g.visited = f.visited) =>
              g.visit_date = f.visit_date]_vars

---------------------------------------------------------------------------
\* One write per control.

\* The writes in flight that the mounted control of source src sent with one
\* of the kinds.
Outstanding(src, kinds) ==
    {i \in DOMAIN net : net[i].live /\ net[i].src = src /\ net[i].kind \in kinds}

---------------------------------------------------------------------------
\* What the location page shows of the reviews.

\* C29: once its loads have returned, the location page shows a card for
\* every review it holds, and the "Sign in to write a review" prompt when no
\* viewer is signed in, whether or not a viewer is signed in and whether or
\* not the location is a favorite.
C29_ReviewsShownToAll ==
    (route = "location" /\ net = <<>>) =>
        /\ CardIds(user, favorite, reviews) = {r.id : r \in reviews}
        /\ user = Null => SignInPromptShown(user, favorite)

---------------------------------------------------------------------------
\* Handlers without a signed-in viewer.

\* The write calls that have not reached the store yet.
Requested(msgs) == {i \in Writes(msgs) : msgs[i].stage = "req"}

\* C30: a step taken while the page (the ProgramCard on the Programs page)
\* holds no user sends no write call; the heart button of either then shows
\* "Sign in required" and opens the sign-in page, and the Helpful button
\* shows "Sign in required".
C30_NoWriteWithoutViewer ==
    [][/\ ((route = "location" /\ user = Null) \/ (route = "programs" /\ cardUser = Null))
           => Cardinality(Requested(net')) <= Cardinality(Requested(net))
       /\ (user = Null /\ HandleToggleFavorite)
           => event' = Did("toggleRefused", "Sign in required") /\ route' = "auth"
       /\ (cardUser = Null /\ HandleFavoriteToggle)
           => event' = Did("toggleRefused", "Sign in required") /\ route' = "auth"
       /\ \A r \in reviews : (user = Null /\ HandleHelpfulVote(r))
           => event' = Did("voteRefused", "Sign in required") /\ net' = net]_vars

\* C30 witness: the viewer signed out on the location page and pressed the
\* heart button; the sign-in page is open and no write call was sent.
C30_Witness ==
    /\ event = Did("toggleRefused", "Sign in required")
    /\ route = "auth"
    /\ session = Null /\ user = Null /\ favorite # Null
    /\ Writes(net) = {}

====
